---- MODULE Spec2Model ----
(***************************************************************************)
(* The deliberation engine of geotutor-ai: ConsensusManager                *)
(* (src/src/agents/consensus.py) with the calculator post-processing it    *)
(* applies to Stage-1 drafts (src/src/tools/calculator.py).                *)
(*                                                                         *)
(* Texts are sequences of one-character strings, so that the regular       *)
(* expressions and substring tests of the code are computed on characters. *)
(***************************************************************************)
EXTENDS Integers, Sequences, FiniteSets, TLC

(***************************************************************************)
(* Characters and character classes of Python's re module.                 *)
(***************************************************************************)
\* a text as the sequence of its characters
Chars(s) == [i \in 1..Len(s) |-> SubSeq(s, i, i)]

UPPER == <<"A", "B", "C", "D", "E", "F", "G", "H", "I", "J", "K", "L", "M",
           "N", "O", "P", "Q", "R", "S", "T", "U", "V", "W", "X", "Y", "Z">>
LOWER == <<"a", "b", "c", "d", "e", "f", "g", "h", "i", "j", "k", "l", "m",
           "n", "o", "p", "q", "r", "s", "t", "u", "v", "w", "x", "y", "z">>
Letters == 1..Len(UPPER)

\* str.lower() on one character
lower(c) == IF \E i \in Letters : UPPER[i] = c
            THEN LOWER[CHOOSE i \in Letters : UPPER[i] = c]
            ELSE c

\* str.upper() on one character
upper(c) == IF \E i \in Letters : LOWER[i] = c
            THEN UPPER[CHOOSE i \in Letters : LOWER[i] = c]
            ELSE c

\* \s
SpaceCh == {" ", "\n", "\t", "\r"}
\* [A-E] under re.IGNORECASE
LabelCh == {"A", "B", "C", "D", "E", "a", "b", "c", "d", "e"}
\* the delimiters \> \- and , of the character classes, with the three
\* characters the source file holds where an arrow was meant (U+00E2, U+2020
\* and U+2019, written here by their code points)
DelimCh == {">", "-", ",", "U+00E2", "U+2020", "U+2019"}
\* [1-5]
DigitCh == {"1", "2", "3", "4", "5"}
\* \w, for \b
WordCh == {UPPER[i] : i \in Letters} \cup {LOWER[i] : i \in Letters}
          \cup {"0", "1", "2", "3", "4", "5", "6", "7", "8", "9", "_", "U+00E2"}

\* valid_labels of parse_ranking
valid_labels == {"A", "B", "C", "D", "E"}

\* the literal lit occurs in text at index i (IgnoreCase: re.IGNORECASE)
MatchAt(lit, text, i, IgnoreCase) ==
    /\ i >= 1
    /\ i + Len(lit) - 1 <= Len(text)
    /\ \A k \in 1..Len(lit) :
          IF IgnoreCase THEN lower(text[i + k - 1]) = lower(lit[k])
                        ELSE text[i + k - 1] = lit[k]

\* Python's `lit in text`
Contains(text, lit) == \E i \in 1..Len(text) : MatchAt(lit, text, i, FALSE)

\* Python's `lit in text.lower()`, lit in lower case
ContainsLower(text, lit) == \E i \in 1..Len(text) : MatchAt(lit, text, i, TRUE)

\* a greedy S* from index i: the index of the first character not in S
RECURSIVE SkipSet(_, _, _)
SkipSet(text, i, S) ==
    IF i <= Len(text) /\ text[i] \in S THEN SkipSet(text, i + 1, S) ELSE i

\* a greedy \*?\*? from index i
SkipStars(text, i) ==
    LET j == IF i <= Len(text) /\ text[i] = "*" THEN i + 1 ELSE i
    IN  IF j <= Len(text) /\ text[j] = "*" THEN j + 1 ELSE j

NoMatch == [ok |-> FALSE, caps |-> <<>>, end |-> 0]

\* \s*\*?\*?([A-E])\*?\*? from index i, after the prefix of rules 2 and 3
LabelTail(text, i) ==
    LET j == SkipStars(text, i)
    IN  IF j <= Len(text) /\ text[j] \in LabelCh
        THEN [ok |-> TRUE, caps |-> <<text[j]>>, end |-> SkipStars(text, j + 1)]
        ELSE NoMatch

(***************************************************************************)
(* The six patterns of parse_ranking, each matched at one index i: ok, the *)
(* captured groups, and the index after the match.                         *)
(***************************************************************************)
cFINAL == Chars("FINAL")
cRANKING == Chars("RANKING")
cSolution == Chars("Solution")
cRank == Chars("rank")
cBest == Chars("best")
cOrder == Chars("order")
OrdinalWords == { Chars("best"), Chars("first"), Chars("1st"), Chars("second"),
                  Chars("2nd"), Chars("third"), Chars("3rd"), Chars("worst"),
                  Chars("last") }

\* FINAL\s*RANKING[:\s]*([A-E][\s\>\-...,A-E]+)
Pattern1At(text, i) ==
    IF ~MatchAt(cFINAL, text, i, TRUE) THEN NoMatch ELSE
    LET j1 == SkipSet(text, i + Len(cFINAL), SpaceCh) IN
    IF ~MatchAt(cRANKING, text, j1, TRUE) THEN NoMatch ELSE
    LET j2 == SkipSet(text, j1 + Len(cRANKING), SpaceCh \cup {":"}) IN
    IF ~(j2 <= Len(text) /\ text[j2] \in LabelCh) THEN NoMatch ELSE
    LET j3 == SkipSet(text, j2 + 1, SpaceCh \cup DelimCh \cup LabelCh) IN
    IF j3 = j2 + 1 THEN NoMatch
    ELSE [ok |-> TRUE, caps |-> <<SubSeq(text, j2, j3 - 1)>>, end |-> j3]

\* Pattern2At taking "1. A" alone for a numbered item
Pattern2AtDotOnly(text, i) ==
    IF /\ i + 1 <= Len(text)
       /\ text[i] \in DigitCh
       /\ text[i + 1] = "."
    THEN LabelTail(text, SkipSet(text, i + 2, SpaceCh))
    ELSE NoMatch

\* [1-5][\.\)\:]\s*\*?\*?([A-E])\*?\*?
Pattern2At(text, i) ==
    IF /\ i + 1 <= Len(text)
       /\ text[i] \in DigitCh
       /\ text[i + 1] \in {".", ")", ":"}
    THEN LabelTail(text, SkipSet(text, i + 2, SpaceCh))
    ELSE NoMatch

\* (?:best|first|1st|second|2nd|third|3rd|worst|last)[:\s]+\*?\*?([A-E])\*?\*?
Pattern3At(text, i) ==
    IF \E w \in OrdinalWords : MatchAt(w, text, i, TRUE)
    THEN LET w == CHOOSE x \in OrdinalWords : MatchAt(x, text, i, TRUE)
             j == SkipSet(text, i + Len(w), SpaceCh \cup {":"})
         IN  IF j = i + Len(w) THEN NoMatch ELSE LabelTail(text, j)
    ELSE NoMatch

\* Solution\s+([A-E])
Pattern4At(text, i) ==
    IF ~MatchAt(cSolution, text, i, TRUE) THEN NoMatch ELSE
    LET j == SkipSet(text, i + Len(cSolution), SpaceCh) IN
    IF j > i + Len(cSolution) /\ j <= Len(text) /\ text[j] \in LabelCh
    THEN [ok |-> TRUE, caps |-> <<text[j]>>, end |-> j + 1]
    ELSE NoMatch

\* \s*[\>\-...,]\s*([A-E]) from index i: the index after it, or 0
DelimLabel(text, i) ==
    LET j == SkipSet(text, i, SpaceCh) IN
    IF ~(j <= Len(text) /\ text[j] \in DelimCh) THEN 0 ELSE
    LET k == SkipSet(text, j + 1, SpaceCh) IN
    IF k <= Len(text) /\ text[k] \in LabelCh THEN k + 1 ELSE 0

\* ([A-E])\s*[\>\-...,]\s*([A-E])(?:\s*[\>\-...,]\s*([A-E]))?
Pattern5At(text, i) ==
    IF ~(i <= Len(text) /\ text[i] \in LabelCh) THEN NoMatch ELSE
    LET e2 == DelimLabel(text, i + 1) IN
    IF e2 = 0 THEN NoMatch ELSE
    LET e3 == DelimLabel(text, e2) IN
    IF e3 = 0
    THEN [ok |-> TRUE, caps |-> <<text[i], text[e2 - 1]>>, end |-> e2]
    ELSE [ok |-> TRUE, caps |-> <<text[i], text[e2 - 1], text[e3 - 1]>>, end |-> e3]

\* \b([A-E])\b, without re.IGNORECASE
Pattern6At(text, i) ==
    IF /\ i <= Len(text)
       /\ text[i] \in valid_labels
       /\ (i = 1 \/ text[i - 1] \notin WordCh)
       /\ (i = Len(text) \/ text[i + 1] \notin WordCh)
    THEN [ok |-> TRUE, caps |-> <<text[i]>>, end |-> i + 1]
    ELSE NoMatch

PatternAt(rule, text, i) ==
    CASE rule = 1 -> Pattern1At(text, i)
      [] rule = 2 -> Pattern2At(text, i)
      [] rule = 3 -> Pattern3At(text, i)
      [] rule = 4 -> Pattern4At(text, i)
      [] rule = 5 -> Pattern5At(text, i)
      [] rule = 6 -> Pattern6At(text, i)

\* re.search: the leftmost match of the rule's pattern, or NoMatch
re_search(rule, text) ==
    LET hits == {i \in 1..Len(text) : PatternAt(rule, text, i).ok}
    IN  IF hits = {} THEN NoMatch
        ELSE PatternAt(rule, text, CHOOSE i \in hits : \A j \in hits : i <= j)

\* re.findall for a pattern with one group: the captured characters of the
\* non-overlapping matches, scanning from index i
RECURSIVE re_findall(_, _, _)
re_findall(rule, text, i) ==
    IF i > Len(text) THEN <<>>
    ELSE LET m == PatternAt(rule, text, i)
         IN  IF m.ok THEN <<m.caps[1]>> \o re_findall(rule, text, m.end)
             ELSE re_findall(rule, text, i + 1)

\* re.split(r"[\>\-...,\s]+", raw_seq): the pieces between runs of delimiters
RECURSIVE re_split(_, _, _)
re_split(seq, i, piece) ==
    IF i > Len(seq) THEN <<piece>>
    ELSE IF seq[i] \in DelimCh \cup SpaceCh
         THEN <<piece>> \o re_split(seq, SkipSet(seq, i, DelimCh \cup SpaceCh), <<>>)
         ELSE re_split(seq, i + 1, Append(piece, seq[i]))

\* t.strip().upper() of a piece, as a label when it is one character long
IsLabelPiece(t) == Len(t) = 1 /\ upper(t[1]) \in valid_labels

\* [t.upper() for t in pieces if t.upper() in valid_labels], pieces a sequence
\* of character sequences
RECURSIVE CleanPieces(_)
CleanPieces(pieces) ==
    IF pieces = <<>> THEN <<>>
    ELSE (IF IsLabelPiece(Head(pieces)) THEN <<upper(Head(pieces)[1])>> ELSE <<>>)
         \o CleanPieces(Tail(pieces))

\* [t.upper() for t in chars if t.upper() in valid_labels], chars a sequence
\* of captured characters
RECURSIVE CleanChars(_)
CleanChars(chars) ==
    IF chars = <<>> THEN <<>>
    ELSE (IF upper(Head(chars)) \in valid_labels THEN <<upper(Head(chars))>> ELSE <<>>)
         \o CleanChars(Tail(chars))

\* Dedup keeping every occurrence
KeepAll(chars, seen) == CleanChars(chars)

\* rule 6's loop: deduplicate, keeping the first occurrence
RECURSIVE Dedup(_, _)
Dedup(chars, seen) ==
    IF chars = <<>> THEN <<>>
    ELSE IF upper(Head(chars)) \notin seen /\ upper(Head(chars)) \in valid_labels
         THEN <<upper(Head(chars))>> \o Dedup(Tail(chars), seen \cup {upper(Head(chars))})
         ELSE Dedup(Tail(chars), seen)

\* the clean_tokens of one rule of parse_ranking (<<>>: the rule yields nothing)
RuleTokens(rule, text) ==
    CASE rule = 1 ->
           LET m == re_search(1, text)
           IN  IF m.ok THEN CleanPieces(re_split(m.caps[1], 1, <<>>)) ELSE <<>>
      [] rule \in {2, 3, 4} -> CleanChars(re_findall(rule, text, 1))
      [] rule = 5 ->
           LET m == re_search(5, text)
           IN  IF m.ok THEN CleanChars(m.caps) ELSE <<>>
      [] rule = 6 ->
           IF \/ ContainsLower(text, cRank)
              \/ ContainsLower(text, cBest)
              \/ ContainsLower(text, cOrder)
           THEN Dedup(re_findall(6, text, 1), {})
           ELSE <<>>

\* ConsensusManager.parse_ranking: the first rule that yields a label decides
RECURSIVE FirstRule(_, _)
FirstRule(rule, text) ==
    IF rule > 6 THEN <<>>
    ELSE IF RuleTokens(rule, text) # <<>> THEN RuleTokens(rule, text)
         ELSE FirstRule(rule + 1, text)

parse_ranking(text) == FirstRule(1, text)

(***************************************************************************)
(* The calculator post-processing of a Stage-1 draft                       *)
(* (src/src/tools/calculator.py).                                          *)
(***************************************************************************)
\* str.strip()
RECURSIVE rstrip(_)
rstrip(t) == IF t # <<>> /\ t[Len(t)] \in SpaceCh THEN rstrip(SubSeq(t, 1, Len(t) - 1)) ELSE t
strip(t) == LET r == rstrip(t) IN SubSeq(r, SkipSet(r, 1, SpaceCh), Len(r))

\* dangerous_patterns of safe_calculate: the literal ones, and class\s, def\s
DangerousWords == { Chars("__"), Chars("import"), Chars("exec"), Chars("eval"),
                    Chars("open"), Chars("os."), Chars("sys."),
                    Chars("subprocess"), Chars("lambda") }
DangerousBeforeSpace == { Chars("class"), Chars("def") }

\* re.search(pattern, expr, re.IGNORECASE) for some dangerous pattern
IsDangerous(expr) ==
    \/ \E w \in DangerousWords : ContainsLower(expr, w)
    \/ \E w \in DangerousBeforeSpace : \E i \in 1..Len(expr) :
          /\ MatchAt(w, expr, i, TRUE)
          /\ i + Len(w) <= Len(expr)
          /\ expr[i + Len(w)] \in SpaceCh

\* eval(expr, {"__builtins__": {}}, safe_namespace) and the formatting of its
\* result, on the expressions the drafts of this model hold: an integer
\* result, a ZeroDivisionError, a NameError; any other expression is taken
\* for a SyntaxError
py_eval(expr) ==
    CASE expr = Chars("2*3") -> [raised |-> "", text |-> Chars("6")]
      [] expr = Chars("1/0") -> [raised |-> "ZeroDivisionError",
                                 text |-> Chars("division by zero")]
      [] expr = Chars("foo") -> [raised |-> "Exception",
                                 text |-> Chars("name 'foo' is not defined")]
      [] expr = Chars("2*stdError") -> [raised |-> "Exception",
                                        text |-> Chars("name 'stdError' is not defined")]
      [] OTHER -> [raised |-> "Exception",
                   text |-> Chars("invalid syntax (<string>, line 1)")]

safe_calculate(expression) ==
    LET expr == strip(expression) IN
    IF IsDangerous(expr) THEN Chars("[CALC_ERROR: Unsafe expression detected]")
    ELSE LET r == py_eval(expr) IN
         CASE r.raised = "" -> r.text
           [] r.raised = "ZeroDivisionError" -> Chars("[CALC_ERROR: Division by zero]")
           [] OTHER -> Chars("[CALC_ERROR: ") \o r.text \o Chars("]")

cCALCULATE == Chars("CALCULATE(")

\* CALCULATE\(([^)]+)\) at index i, under re.IGNORECASE
RECURSIVE SkipUntil(_, _, _)
SkipUntil(text, i, c) ==
    IF i <= Len(text) /\ text[i] # c THEN SkipUntil(text, i + 1, c) ELSE i

CalculateAt(text, i) ==
    IF ~MatchAt(cCALCULATE, text, i, TRUE) THEN NoMatch ELSE
    LET from == i + Len(cCALCULATE)
        j == SkipUntil(text, from, ")")
    IN  IF j > Len(text) \/ j = from THEN NoMatch
        ELSE [ok |-> TRUE, caps |-> <<SubSeq(text, from, j - 1)>>, end |-> j + 1]

\* re.sub(pattern, replace_calc, text, flags=re.IGNORECASE), from index i
RECURSIVE re_sub_calc(_, _)
re_sub_calc(text, i) ==
    IF i > Len(text) THEN <<>>
    ELSE LET m == CalculateAt(text, i)
         IN  IF m.ok THEN safe_calculate(m.caps[1]) \o re_sub_calc(text, m.end)
             ELSE <<text[i]>> \o re_sub_calc(text, i + 1)

process_calculations(text) == re_sub_calc(text, 1)

(***************************************************************************)
(* Python dicts keep insertion order: a dict is a sequence of [k, v].      *)
(***************************************************************************)
DictKeys(d) == [i \in 1..Len(d) |-> d[i].k]
DictKeySet(d) == {d[i].k : i \in 1..Len(d)}
DictHas(d, key) == key \in DictKeySet(d)
\* d.get(key, default), and d[key] for a key of d
DictGet(d, key, default) ==
    IF DictHas(d, key) THEN d[CHOOSE i \in 1..Len(d) : d[i].k = key].v ELSE default
\* d[key] = val
DictSet(d, key, val) ==
    IF DictHas(d, key)
    THEN [i \in 1..Len(d) |-> IF d[i].k = key THEN [k |-> key, v |-> val] ELSE d[i]]
    ELSE Append(d, [k |-> key, v |-> val])

(***************************************************************************)
(* The participants and the texts the generation service may return.       *)
(***************************************************************************)
COUNCIL_MEMBERS ==
    << [name |-> "Member_DeepSeek", family |-> "deepseek", model |-> "deepseek-chat"],
       [name |-> "Member_GPT", family |-> "gpt", model |-> "gpt-4o"],
       [name |-> "Member_Mistral", family |-> "mistral", model |-> "mistral-large-latest"] >>
MemberIdx == 1..Len(COUNCIL_MEMBERS)
MemberNames == {COUNCIL_MEMBERS[i].name : i \in MemberIdx}

\* labels of stage2_collect_rankings
labels == <<"A", "B", "C", "D", "E">>

\* how many texts of each pool the generation service may return
NumDraftTexts == 2
NumReviewTexts == 2
\* how many verdicts of VerdictPool a Stage 3 run on its own may be given
NumVerdicts == 4

\* Stage-1 answers: one with a marked expression that cannot be computed, one
\* that speaks of an error, one with a marked expression that can, a plain one
DraftPool == << Chars("q=CALCULATE(1/0) kPa"),
                Chars("Error margin 5%"),
                Chars("q=CALCULATE(2*3)"),
                Chars("Use Terzaghi.") >>
DraftTexts == {DraftPool[i] : i \in {j \in 1..Len(DraftPool) : j <= NumDraftTexts}}

\* Stage-1 answers with a marked expression: a division by zero, one that
\* cannot be parsed, a disallowed one, one with a name the calculator does
\* not know, one that can be computed
CalcDrafts == { Chars("q=CALCULATE(1/0) kPa"),
                Chars("q=CALCULATE(2*) kPa"),
                Chars("x=CALCULATE(import os)"),
                Chars("ci=CALCULATE(2*stdError)"),
                Chars("q=CALCULATE(2*3)") }

\* Stage-2 verdicts: the format the review prompt demands, a text with no
\* ranking, a declaration alone, a numbered list
ReviewPool == << Chars("FINAL RANKING: B > A\nCRITIQUE: ok"),
                 Chars("The weather is nice today."),
                 Chars("FINAL RANKING: A > C > B"),
                 Chars("1. B 2. A 3. C") >>
ReviewTexts == {ReviewPool[i] : i \in {j \in 1..Len(ReviewPool) : j <= NumReviewTexts}}

\* verdicts handed to a Stage 3 run on its own: two full orders that tie the
\* first two labels, a text with no ranking, an order of five labels, an
\* order naming one label twice, a single label
VerdictPool == << Chars("FINAL RANKING: A > B > C"),
                  Chars("FINAL RANKING: B > A > C"),
                  Chars("I cannot rank these."),
                  Chars("FINAL RANKING: E > D > C > B > A"),
                  Chars("FINAL RANKING: A > A > B"),
                  Chars("FINAL RANKING: B") >>
VerdictTexts == {VerdictPool[i] : i \in {j \in 1..Len(VerdictPool) : j <= NumVerdicts}}

\* verdicts of reviewers who name a label more than once, or once
RepeatVerdicts == {VerdictPool[5], VerdictPool[1], VerdictPool[6]}

\* the chair's answer, and str(e) of a failed call
ChairTexts == {Chars("Final report")}
CallErrors == {Chars("timeout")}

Query == Chars("B=2m?")
Context == Chars("Nq=22.5")

VARIABLES
    on_progress,    \* the callback the ConsensusManager was constructed with
    pc,             \* where the caller of the three stages is
    futures,        \* the futures of each stage's executor, by stage and member
    calls,          \* every call_llm made, in order
    events,         \* every progress event given to on_progress, in order
    responses,      \* Stage 1: {member_name: solution_text}
    label_map,      \* Stage 2: {label: member_name}
    rankings,       \* Stage 2: [{reviewer, raw_text, parsed_order}]
    scores,         \* Stage 3: {label: points}
    cursor,         \* Stage 3: the index of the next Ranking to count
    winner,         \* Stage 3: winner_label, winner_member, best_solution
    final_res,      \* Stage 3: the chair's answer, or the exception raised
    node,           \* /ask: the graph node to run next, or where ask_question is
    state,          \* /ask: the AgentState of graph_app.invoke
    visited,        \* /ask: the graph nodes run, in order
    reviews,        \* /ask: the arguments of every critic.review call
    raised,         \* /ask: the exception a node let out of graph_app.invoke
    reply,          \* /ask: the QuestionResponse returned to the caller
    request,        \* /ask-stream: the QuestionRequest
    worker,         \* /ask-stream: where the thread of run_consensus is
    todo,           \* /ask-stream: the events the running stage has yet to emit
    locals,         \* /ask-stream: the locals of run_consensus
    progress_queue, \* /ask-stream: the Queue between the thread and the stream
    result_holder,  \* /ask-stream: the dict the thread leaves its result in
    consumer,       \* /ask-stream: where generate_events is
    emitted,        \* /ask-stream: the events generate_events has yielded
    enqueued,       \* /ask-stream: everything put on progress_queue, in order
    worker_raised,  \* /ask-stream: the exception caught by run_consensus
    parser,         \* parse_ranking: the frame of the running call
    returns         \* parse_ranking: the text and the result of every finished call

coordinator_vars == <<on_progress, pc, futures, calls, events, responses, label_map, rankings,
                      scores, cursor, winner, final_res>>
graph_vars == <<node, state, visited, reviews, raised, reply>>
stream_vars == <<request, worker, todo, locals, progress_queue, result_holder,
                 consumer, emitted, enqueued, worker_raised>>
\* the variables of the request handlers around the coordinator
parse_vars == <<parser, returns>>
handler_vars == <<graph_vars, stream_vars, parse_vars>>
vars == <<coordinator_vars, handler_vars>>

Stages == {"collecting", "ranking"}
NoFutures == [n \in MemberNames |-> [state |-> "none", ok |-> FALSE, val |-> <<>>]]
NoWinner == [label |-> "", member |-> "", best_solution |-> <<>>]
NoResult == [state |-> "none", val |-> <<>>]

\* ConsensusManager._emit with a callback registered: one more event
Event(stage, agent, status) == [stage |-> stage, agent |-> agent, status |-> status]

\* on_progress: None, or a callback, known by the statuses of the events on
\* which it raises; Returning raises on none
NoCallback == [registered |-> FALSE, raises |-> {}]
Returning == [registered |-> TRUE, raises |-> {}]

\* _emit's body with the call outside any try: what the callback raises
\* leaves _emit
_emit_raises_unguarded(cb, status) ==
    IF ~cb.registered THEN FALSE ELSE status \in cb.raises

\* whether an exception leaves self._emit(stage, agent, status, detail)
_emit_raises(cb, status) ==
    IF ~cb.registered THEN FALSE                 \* if self.on_progress:
    ELSE IF status \in cb.raises THEN FALSE      \* except Exception as e: print(...)
    ELSE FALSE                                   \* the callback returned

\* the events given to the callback so far, after self._emit(...)
_emit(log, stage, agent, status) ==
    IF ~on_progress.registered THEN log ELSE Append(log, Event(stage, agent, status))

\* EmitStarted announcing the first participant only
EmitStartedFirstOnly(log, stage) ==
    Append(log, Event(stage, COUNCIL_MEMBERS[1].name, "started"))

\* for m in COUNCIL_MEMBERS: self._emit(stage, m["name"], "started", ...)
EmitStarted(log, stage) ==
    IF ~on_progress.registered THEN log
    ELSE log \o [i \in MemberIdx |-> Event(stage, COUNCIL_MEMBERS[i].name, "started")]

\* executor.submit(call_llm, prompt=..., ...) for m in COUNCIL_MEMBERS
Submitted(stage, prompt) ==
    [i \in MemberIdx |-> [stage |-> stage, to |-> COUNCIL_MEMBERS[i].name,
                          family |-> COUNCIL_MEMBERS[i].family,
                          model |-> COUNCIL_MEMBERS[i].model, prompt |-> prompt]]
Running == [n \in MemberNames |-> [state |-> "running", ok |-> FALSE, val |-> <<>>]]

\* None, and a key the AgentState does not hold
None == <<"None">>
Unset == <<"Unset">>
NoState == [query |-> Unset, context |-> Unset, next_step |-> "Unset", result |-> Unset,
            plan |-> Unset, critique |-> Unset, mindmap_path |-> Unset]
NoReply == [sent |-> FALSE, answer |-> <<>>, critique |-> <<>>, mindmapPath |-> None,
            context |-> None, plan |-> None, success |-> FALSE, error |-> None]

\* no request has reached /ask
GraphIdle ==
    /\ node = "idle"
    /\ state = NoState
    /\ visited = <<>>
    /\ reviews = <<>>
    /\ raised = NoResult
    /\ reply = NoReply

\* result_holder = {"answer": "", "critique": "", "error": None, ...}
NoHolder == [answer |-> <<>>, critique |-> <<>>, error |-> None, visual_path |-> None]
NoRequest == [question |-> <<>>, includeVisual |-> FALSE]
NoLocals == [context |-> <<>>, valid |-> <<>>, final_answer |-> <<>>, critique |-> <<>>]

\* no request has reached /ask-stream
StreamIdle ==
    /\ request = NoRequest
    /\ worker = "idle"
    /\ todo = <<>>
    /\ locals = NoLocals
    /\ progress_queue = <<>>
    /\ result_holder = NoHolder
    /\ consumer = "idle"
    /\ emitted = <<>>
    /\ enqueued = <<>>
    /\ worker_raised = NoResult

\* parse_ranking has not been called
NoCall == [pc |-> "idle", text |-> <<>>, rule |-> 0, tokens |-> <<>>]
ParseIdle ==
    /\ parser = NoCall
    /\ returns = <<>>

HandlersIdle == GraphIdle /\ StreamIdle /\ ParseIdle

Init ==
    /\ HandlersIdle
    /\ on_progress = Returning
    /\ pc = "stage1"
    /\ futures = [st \in Stages |-> NoFutures]
    /\ calls = <<>>
    /\ events = <<>>
    /\ responses = <<>>
    /\ label_map = <<>>
    /\ rankings = <<>>
    /\ scores = <<>>
    /\ cursor = 0
    /\ winner = NoWinner
    /\ final_res = NoResult

(***************************************************************************)
(* Stage 1: stage1_collect_responses.                                      *)
(***************************************************************************)
Stage1Prompt == [kind |-> "generate", query |-> Query, context |-> Context]

\* the stage-level and per-member started events, and the three submits
Stage1Start ==
    /\ pc = "stage1"
    /\ events' = EmitStarted(_emit(events, "collecting", "system", "started"), "collecting")
    /\ calls' = calls \o Submitted("collecting", Stage1Prompt)
    /\ futures' = [futures EXCEPT !["collecting"] = Running]
    /\ responses' = <<>>
    /\ pc' = "collecting"
    /\ UNCHANGED <<handler_vars, on_progress, label_map, rankings, scores, cursor, winner, final_res>>

\* a pool worker's call_llm returns a text, or raises
CallReturns(stage, n, text) ==
    /\ pc = stage
    /\ futures[stage][n].state = "running"
    /\ futures' = [futures EXCEPT ![stage][n] =
                                   [state |-> "finished", ok |-> TRUE, val |-> text]]
    /\ UNCHANGED <<handler_vars, on_progress, pc, calls, events, responses, label_map, rankings, scores,
                   cursor, winner, final_res>>

CallRaises(stage, n, err) ==
    /\ pc = stage
    /\ futures[stage][n].state = "running"
    /\ futures' = [futures EXCEPT ![stage][n] =
                                   [state |-> "finished", ok |-> FALSE, val |-> err]]
    /\ UNCHANGED <<handler_vars, on_progress, pc, calls, events, responses, label_map, rankings, scores,
                   cursor, winner, final_res>>

Stage1CallReturns == \E n \in MemberNames, t \in DraftTexts : CallReturns("collecting", n, t)
Stage1CallRaises == \E n \in MemberNames, e \in CallErrors : CallRaises("collecting", n, e)

\* parse_ranking and process_calculations on the texts of the pools, each
\* text computed once
ParsedOrder == [t \in ReviewTexts \cup VerdictTexts \cup RepeatVerdicts |-> parse_ranking(t)]
Processed == [t \in DraftTexts \cup CalcDrafts |-> process_calculations(t)]

\* the draft recorded for a finished future: the body of the try, or of the except
cErrorPrefix == Chars("Error: ")
Stage1Draft(fut) ==
    IF fut.ok THEN Processed[fut.val] ELSE cErrorPrefix \o fut.val

\* Stage1Collect with the except branch recording nothing
Stage1CollectDropsFailed(n) ==
    /\ pc = "collecting"
    /\ futures["collecting"][n].state = "finished"
    /\ responses' = IF futures["collecting"][n].ok
                    THEN DictSet(responses, n, Stage1Draft(futures["collecting"][n]))
                    ELSE responses
    /\ events' = _emit(events, "collecting", n,
                       IF futures["collecting"][n].ok THEN "done" ELSE "error")
    /\ futures' = [futures EXCEPT !["collecting"][n].state = "collected"]
    /\ UNCHANGED <<handler_vars, on_progress, pc, calls, label_map, rankings, scores, cursor, winner, final_res>>

\* Stage1Collect telling nobody of a failed call
Stage1CollectSilentOnError(n) ==
    /\ pc = "collecting"
    /\ futures["collecting"][n].state = "finished"
    /\ responses' = DictSet(responses, n, Stage1Draft(futures["collecting"][n]))
    /\ events' = IF futures["collecting"][n].ok
                 THEN _emit(events, "collecting", n, "done") ELSE events
    /\ futures' = [futures EXCEPT !["collecting"][n].state = "collected"]
    /\ UNCHANGED <<handler_vars, on_progress, pc, calls, label_map, rankings, scores, cursor, winner, final_res>>

\* one turn of `for future in as_completed(future_to_member)`
Stage1Collect(n) ==
    /\ pc = "collecting"
    /\ futures["collecting"][n].state = "finished"
    /\ responses' = DictSet(responses, n, Stage1Draft(futures["collecting"][n]))
    /\ events' = _emit(events, "collecting", n,
                       IF futures["collecting"][n].ok THEN "done" ELSE "error")
    /\ futures' = [futures EXCEPT !["collecting"][n].state = "collected"]
    /\ UNCHANGED <<handler_vars, on_progress, pc, calls, label_map, rankings, scores, cursor, winner, final_res>>

\* Stage1Return leaving the stage as soon as one future has been collected
Stage1ReturnAfterFirst ==
    /\ pc = "collecting"
    /\ \E n \in MemberNames : futures["collecting"][n].state = "collected"
    /\ events' = _emit(events, "collecting", "system", "done")
    /\ pc' = "stage2"
    /\ UNCHANGED <<handler_vars, on_progress, futures, calls, responses, label_map, rankings, scores, cursor, winner, final_res>>

\* the loop is over, the executor is shut down: the stage-level done event
Stage1Return ==
    /\ pc = "collecting"
    /\ \A n \in MemberNames : futures["collecting"][n].state = "collected"
    /\ events' = _emit(events, "collecting", "system", "done")
    /\ pc' = "stage2"
    /\ UNCHANGED <<handler_vars, on_progress, futures, calls, responses, label_map, rankings, scores, cursor, winner, final_res>>

(***************************************************************************)
(* Stage 2: stage2_collect_rankings.                                       *)
(***************************************************************************)
cError == Chars("Error")

\* valid_members without the filter
valid_members_unfiltered(resp) == DictKeys(resp)

\* valid_members = [m for m in responses.keys() if "Error" not in responses[m]]
valid_members(resp) ==
    SelectSeq(DictKeys(resp), LAMBDA m : ~Contains(DictGet(resp, m, <<>>), cError))

\* for i, member in enumerate(valid_members): label_map[labels[i]] = member
BuildLabelMap(valid) == [i \in 1..Len(valid) |-> [k |-> labels[i], v |-> valid[i]]]

\* anonymized_text += f"\n--- SOLUTION {label} ---\n{responses[member]}\n"
RECURSIVE Anonymized(_, _, _)
Anonymized(resp, valid, i) ==
    IF i > Len(valid) THEN <<>>
    ELSE Chars("\n--- SOLUTION ") \o <<labels[i]>> \o Chars(" ---\n")
         \o DictGet(resp, valid[i], <<>>) \o Chars("\n")
         \o Anonymized(resp, valid, i + 1)

RankPrompt(resp) ==
    [kind |-> "rank", anonymized_text |-> Anonymized(resp, valid_members(resp), 1)]

\* Stage2Submitted inviting only the authors of the valid drafts
Stage2SubmittedToAuthors(resp) ==
    SelectSeq(Submitted("ranking", RankPrompt(resp)),
              LAMBDA c : \E i \in 1..Len(valid_members(resp)) : valid_members(resp)[i] = c.to)

\* the reviewer calls: `for m in COUNCIL_MEMBERS`, whoever wrote the drafts
Stage2Submitted(resp) == Submitted("ranking", RankPrompt(resp))

\* the stage-level started event and the Label Map; with no valid response
\* the stage returns [], {} here, otherwise the per-member started events and
\* the three submits follow
Stage2Start ==
    /\ pc = "stage2"
    /\ LET lm == BuildLabelMap(valid_members(responses))
           ev == _emit(events, "ranking", "system", "started")
       IN  IF lm = <<>>
           THEN /\ events' = _emit(ev, "ranking", "system", "error")
                /\ rankings' = <<>>
                /\ label_map' = <<>>
                /\ pc' = "stage3"
                /\ UNCHANGED <<handler_vars, on_progress, calls, futures>>
           ELSE /\ events' = EmitStarted(ev, "ranking")
                /\ calls' = calls \o Stage2Submitted(responses)
                /\ futures' = [futures EXCEPT !["ranking"] = Running]
                /\ rankings' = <<>>
                /\ label_map' = lm
                /\ pc' = "ranking"
    /\ UNCHANGED <<handler_vars, on_progress, responses, scores, cursor, winner, final_res>>

Stage2CallReturns == \E n \in MemberNames, t \in ReviewTexts : CallReturns("ranking", n, t)
Stage2CallRaises == \E n \in MemberNames, e \in CallErrors : CallRaises("ranking", n, e)

\* the Ranking appended for a reviewer whose call returned:
\* parsed = self.parse_ranking(res)
Ranking(reviewer, res) ==
    [reviewer |-> reviewer, raw_text |-> res, parsed_order |-> ParsedOrder[res]]

\* Stage2Collect appending a Ranking only when something was parsed
Stage2CollectDropsEmpty(n) ==
    /\ pc = "ranking"
    /\ futures["ranking"][n].state = "finished"
    /\ rankings' = IF /\ futures["ranking"][n].ok
                      /\ ParsedOrder[futures["ranking"][n].val] # <<>>
                   THEN Append(rankings, Ranking(n, futures["ranking"][n].val))
                   ELSE rankings
    /\ events' = _emit(events, "ranking", n,
                       IF futures["ranking"][n].ok THEN "done" ELSE "error")
    /\ futures' = [futures EXCEPT !["ranking"][n].state = "collected"]
    /\ UNCHANGED <<handler_vars, on_progress, pc, calls, responses, label_map, scores, cursor, winner, final_res>>

\* one turn of `for future in as_completed(future_to_member)`
Stage2Collect(n) ==
    /\ pc = "ranking"
    /\ futures["ranking"][n].state = "finished"
    /\ rankings' = IF futures["ranking"][n].ok
                   THEN Append(rankings, Ranking(n, futures["ranking"][n].val))
                   ELSE rankings
    /\ events' = _emit(events, "ranking", n,
                       IF futures["ranking"][n].ok THEN "done" ELSE "error")
    /\ futures' = [futures EXCEPT !["ranking"][n].state = "collected"]
    /\ UNCHANGED <<handler_vars, on_progress, pc, calls, responses, label_map, scores, cursor, winner, final_res>>

Stage2Return ==
    /\ pc = "ranking"
    /\ \A n \in MemberNames : futures["ranking"][n].state = "collected"
    /\ events' = _emit(events, "ranking", "system", "done")
    /\ pc' = "stage3"
    /\ UNCHANGED <<handler_vars, on_progress, futures, calls, responses, label_map, rankings, scores, cursor, winner, final_res>>

(***************************************************************************)
(* Stage 3: stage3_synthesize_final.                                       *)
(***************************************************************************)
\* scores = {label: 0 for label in label_map.keys()}
ZeroScores(lm) == [i \in 1..Len(lm) |-> [k |-> lm[i].k, v |-> 0]]

\* Points without the floor at zero
PointsNoFloor(i) == 3 - i

\* points = max(0, 3 - i), i the 0-based position
Points(i) == IF 3 - i > 0 THEN 3 - i ELSE 0

\* AddOrder without `if label in scores`
RECURSIVE AddOrderUnguarded(_, _, _)
AddOrderUnguarded(sc, order, pos) ==
    IF pos > Len(order) THEN sc
    ELSE AddOrderUnguarded(DictSet(sc, order[pos],
                                   DictGet(sc, order[pos], 0) + Points(pos - 1)),
                           order, pos + 1)

\* for i, label in enumerate(order): if label in scores: scores[label] += points
RECURSIVE AddOrder(_, _, _)
AddOrder(sc, order, pos) ==
    IF pos > Len(order) THEN sc
    ELSE LET label == order[pos] IN
         AddOrder(IF DictHas(sc, label)
                  THEN DictSet(sc, label, DictGet(sc, label, 0) + Points(pos - 1))
                  ELSE sc,
                  order, pos + 1)

\* MaxKey taking the last of the keys of maximal value
LastMaxKey(d) ==
    d[CHOOSE i \in 1..Len(d) : /\ \A j \in 1..Len(d) : d[j].v <= d[i].v
                               /\ \A j \in (i + 1)..Len(d) : d[j].v < d[i].v].k

\* MaxKey taking the first key whatever the values
FirstKey(d) == d[1].k

\* max(scores, key=scores.get): the first key, in the dict's order, of maximal value
MaxKey(d) ==
    d[CHOOSE i \in 1..Len(d) : /\ \A j \in 1..Len(d) : d[j].v <= d[i].v
                               /\ \A j \in 1..(i - 1) : d[j].v < d[i].v].k

Stage3Start ==
    /\ pc = "stage3"
    /\ events' = _emit(events, "synthesizing", "system", "started")
    /\ scores' = ZeroScores(label_map)
    /\ cursor' = 1
    /\ pc' = "scoring"
    /\ UNCHANGED <<handler_vars, on_progress, futures, calls, responses, label_map, rankings, winner, final_res>>

\* one turn of `for r in rankings`
Stage3Score ==
    /\ pc = "scoring"
    /\ cursor <= Len(rankings)
    /\ scores' = AddOrder(scores, rankings[cursor].parsed_order, 1)
    /\ cursor' = cursor + 1
    /\ UNCHANGED <<handler_vars, on_progress, pc, futures, calls, events, responses, label_map, rankings,
                   winner, final_res>>

\* winner_label, winner_member and best_solution
PickWinner(sc, lm, resp) ==
    LET winner_label == IF sc # <<>> THEN MaxKey(sc) ELSE "None"
        winner_member == DictGet(lm, winner_label, "Unknown")
    IN  [label |-> winner_label, member |-> winner_member,
         best_solution |-> DictGet(resp, winner_member, <<>>)]

\* r['reviewer'] + ': ' + r['raw_text'][:200] + '...' for r in rankings
PeerComments(rks) ==
    [i \in 1..Len(rks) |->
        [reviewer |-> rks[i].reviewer,
         excerpt |-> SubSeq(rks[i].raw_text, 1,
                            IF Len(rks[i].raw_text) < 200 THEN Len(rks[i].raw_text) ELSE 200)]]

ChairPrompt(w, rks) ==
    [kind |-> "chair", winner_label |-> w.label, query |-> Query,
     best_solution |-> w.best_solution, peer_comments |-> PeerComments(rks)]

\* Stage3Pick sending the synthesis to the participant whose draft won
Stage3PickAsksWinner ==
    /\ pc = "scoring"
    /\ cursor > Len(rankings)
    /\ LET w == PickWinner(scores, label_map, responses)
           to == IF \E i \in MemberIdx : COUNCIL_MEMBERS[i].name = w.member
                 THEN COUNCIL_MEMBERS[CHOOSE i \in MemberIdx :
                                          COUNCIL_MEMBERS[i].name = w.member]
                 ELSE [name |-> "Chair", family |-> "deepseek", model |-> "deepseek-chat"]
       IN
        /\ winner' = w
        /\ events' = _emit(_emit(events, "synthesizing", w.member, "started"),
                           "synthesizing", "Chair", "started")
        /\ calls' = Append(calls, [stage |-> "synthesizing", to |-> to.name,
                                   family |-> to.family, model |-> to.model,
                                   prompt |-> ChairPrompt(w, rankings)])
    /\ pc' = "chair"
    /\ UNCHANGED <<handler_vars, on_progress, futures, responses, label_map, rankings, scores, cursor, final_res>>

\* the winner, its started event, the chair's started event and the chair call
Stage3Pick ==
    /\ pc = "scoring"
    /\ cursor > Len(rankings)
    /\ LET w == PickWinner(scores, label_map, responses) IN
        /\ winner' = w
        /\ events' = _emit(_emit(events, "synthesizing", w.member, "started"),
                           "synthesizing", "Chair", "started")
        /\ calls' = Append(calls, [stage |-> "synthesizing", to |-> "Chair",
                                   family |-> "deepseek", model |-> "deepseek-chat",
                                   prompt |-> ChairPrompt(w, rankings)])
    /\ pc' = "chair"
    /\ UNCHANGED <<handler_vars, on_progress, futures, responses, label_map, rankings, scores, cursor, final_res>>

\* the chair's call_llm returns: the two done events and the return
ChairReturns ==
    /\ pc = "chair"
    /\ \E t \in ChairTexts : final_res' = [state |-> "returned", val |-> t]
    /\ events' = _emit(_emit(events, "synthesizing", "Chair", "done"),
                       "synthesizing", "system", "done")
    /\ pc' = "done"
    /\ UNCHANGED <<handler_vars, on_progress, futures, calls, responses, label_map, rankings, scores, cursor, winner>>

\* the chair's call_llm raises: the exception leaves stage3_synthesize_final
ChairRaises ==
    /\ pc = "chair"
    /\ \E e \in CallErrors : final_res' = [state |-> "raised", val |-> e]
    /\ pc' = "failed"
    /\ UNCHANGED <<handler_vars, on_progress, futures, calls, events, responses, label_map, rankings, scores,
                   cursor, winner>>

Next ==
    \/ Stage1Start
    \/ Stage1CallReturns
    \/ Stage1CallRaises
    \/ \E n \in MemberNames : Stage1Collect(n)
    \/ Stage1Return
    \/ Stage2Start
    \/ Stage2CallReturns
    \/ Stage2CallRaises
    \/ \E n \in MemberNames : Stage2Collect(n)
    \/ Stage2Return
    \/ Stage3Start
    \/ Stage3Score
    \/ Stage3Pick
    \/ ChairReturns
    \/ ChairRaises

Spec == Init /\ [][Next]_vars

(***************************************************************************)
(* Stage 1 and the start of Stage 2 on drafts with marked expressions.     *)
(***************************************************************************)
Stage1CallReturnsCalc ==
    \E n \in MemberNames, t \in CalcDrafts : CallReturns("collecting", n, t)

NextCalc ==
    \/ Stage1Start
    \/ Stage1CallReturnsCalc
    \/ Stage1CallRaises
    \/ \E n \in MemberNames : Stage1Collect(n)
    \/ Stage1Return
    \/ Stage2Start

SpecCalc == Init /\ [][NextCalc]_vars

(***************************************************************************)
(* The three stages of a ConsensusManager constructed with any callback,   *)
(* or with none: __init__(on_progress) and every self._emit of the stages. *)
(***************************************************************************)
Statuses == {"started", "done", "error"}

\* on_progress of __init__: None, or a callback raising on some statuses
Callbacks ==
    {NoCallback}
    \cup {[registered |-> TRUE, raises |-> S] :
             S \in {{}, {"done"}, {"started", "error"}, Statuses}}

InitEmit ==
    /\ HandlersIdle
    /\ on_progress \in Callbacks
    /\ pc = "stage1"
    /\ futures = [st \in Stages |-> NoFutures]
    /\ calls = <<>>
    /\ events = <<>>
    /\ responses = <<>>
    /\ label_map = <<>>
    /\ rankings = <<>>
    /\ scores = <<>>
    /\ cursor = 0
    /\ winner = NoWinner
    /\ final_res = NoResult

\* an exception let out by _emit outside any try of the stage leaves the stage
LeavesStage ==
    /\ pc' = "raised"
    /\ UNCHANGED <<handler_vars, on_progress, futures, calls, events, responses, label_map,
                   rankings, scores, cursor, winner, final_res>>

\* a step of a stage that calls self._emit with the given statuses
Emitting(step, statuses) ==
    IF \E s \in statuses : _emit_raises(on_progress, s)
    THEN (ENABLED step) /\ LeavesStage
    ELSE step

EmitStage1Start == Emitting(Stage1Start, {"started"})
EmitStage1CallReturns == \E n \in MemberNames : CallReturns("collecting", n, DraftPool[1])
EmitStage1Collect(n) ==
    Emitting(Stage1Collect(n), {IF futures["collecting"][n].ok THEN "done" ELSE "error"})
EmitStage1Return == Emitting(Stage1Return, {"done"})
EmitStage2Start ==
    Emitting(Stage2Start,
             IF valid_members(responses) = <<>> THEN {"started", "error"} ELSE {"started"})
EmitStage2CallReturns == \E n \in MemberNames : CallReturns("ranking", n, ReviewPool[1])
EmitStage2Collect(n) ==
    Emitting(Stage2Collect(n), {IF futures["ranking"][n].ok THEN "done" ELSE "error"})
EmitStage2Return == Emitting(Stage2Return, {"done"})
EmitStage3Start == Emitting(Stage3Start, {"started"})
EmitStage3Pick == Emitting(Stage3Pick, {"started"})
EmitChairReturns == Emitting(ChairReturns, {"done"})

NextEmit ==
    \/ EmitStage1Start
    \/ EmitStage1CallReturns
    \/ Stage1CallRaises
    \/ \E n \in MemberNames : EmitStage1Collect(n)
    \/ EmitStage1Return
    \/ EmitStage2Start
    \/ EmitStage2CallReturns
    \/ Stage2CallRaises
    \/ \E n \in MemberNames : EmitStage2Collect(n)
    \/ EmitStage2Return
    \/ EmitStage3Start
    \/ Stage3Score
    \/ EmitStage3Pick
    \/ EmitChairReturns
    \/ ChairRaises

SpecEmit == InitEmit /\ [][NextEmit]_vars

(***************************************************************************)
(* Stage 3 on its own: stage3_synthesize_final(query, responses, rankings, *)
(* label_map) called on what the first two stages can hand over, with the  *)
(* logs of this stage alone.                                               *)
(***************************************************************************)
\* the sequences without repetition over a set: the orders in which
\* as_completed can hand over the reviewers whose call returned
InjectiveSeqs(S) ==
    {q \in UNION {[1..k -> S] : k \in 0..Cardinality(S)} :
        \A i, j \in 1..Len(q) : i # j => q[i] # q[j]}

\* what a finished Stage-1 call left in its future
Stage1Outcomes ==
    {[state |-> "collected", ok |-> TRUE, val |-> t] : t \in DraftTexts}
    \cup {[state |-> "collected", ok |-> FALSE, val |-> e] : e \in CallErrors}

HandedOver(verdicts) ==
    /\ HandlersIdle
    /\ on_progress = Returning
    /\ pc = "stage3"
    /\ \E out \in [MemberNames -> Stage1Outcomes] :
          /\ responses = [i \in MemberIdx |->
                             [k |-> COUNCIL_MEMBERS[i].name,
                              v |-> Stage1Draft(out[COUNCIL_MEMBERS[i].name])]]
          /\ label_map = BuildLabelMap(valid_members(responses))
          /\ \E rv \in InjectiveSeqs(MemberNames) :
             \E t \in [1..Len(rv) -> verdicts] :
                /\ label_map = <<>> => rv = <<>>
                /\ rankings = [i \in 1..Len(rv) |-> Ranking(rv[i], t[i])]
                /\ futures = [st \in Stages |->
                      IF st = "collecting" THEN out
                      ELSE IF label_map = <<>> THEN NoFutures
                      ELSE [n \in MemberNames |->
                              IF \E i \in 1..Len(rv) : rv[i] = n
                              THEN [state |-> "collected", ok |-> TRUE,
                                    val |-> t[CHOOSE i \in 1..Len(rv) : rv[i] = n]]
                              ELSE [state |-> "collected", ok |-> FALSE,
                                    val |-> CHOOSE e \in CallErrors : TRUE]]]
    /\ calls = <<>>
    /\ events = <<>>
    /\ scores = <<>>
    /\ cursor = 0
    /\ winner = NoWinner
    /\ final_res = NoResult

NextStage3 ==
    \/ Stage3Start
    \/ Stage3Score
    \/ Stage3Pick
    \/ ChairReturns
    \/ ChairRaises

InitStage3 == HandedOver(VerdictTexts)

SpecStage3 == InitStage3 /\ [][NextStage3]_vars

\* Stage 3 on the verdicts of reviewers who repeat a label
InitRepeat == HandedOver(RepeatVerdicts)

SpecRepeat == InitRepeat /\ [][NextStage3]_vars

(***************************************************************************)
(* The synchronous handler: ask_question of brain_api/main.py and the      *)
(* graph of src/graph.py that it invokes. The coordinator is seen from     *)
(* consensus_node: its three stages return the chair's answer or let the   *)
(* chair's exception out.                                                  *)
(***************************************************************************)
\* request.question and request.context
Questions == {Chars("B=2m?"), Chars("Set an Exam"), Chars("Explain Nq")}
RequestContexts == {None, Chars("Unit 3"), Chars("Past exam")}

\* what librarian.retrieve returns: a context, no result, or the text its own
\* except clause makes of a failure of the store
RetrieveResults ==
    {Context, Chars("No relevant documents found.")}
    \cup {Chars("Error during retrieval: ") \o e : e \in CallErrors}
\* what the collaborators of the nodes return
ExamTexts == {Chars("Q1. Define Nq.")}
ExamPaths == {Chars("exam.docx")}
MindmapPaths == {Chars("map.png")}
CritiqueTexts == {Chars("APPROVED."), Chars("NEEDS IMPROVEMENT.")}

\* question_text = f"Context: {request.context}\n\nQuestion: {request.question}"
question_text(question, context) ==
    IF context # None /\ context # <<>>
    THEN Chars("Context: ") \o context \o Chars("\n\nQuestion: ") \o question
    ELSE question

\* dict.get(key, default) on the AgentState
StateGet(val, default) == IF val = Unset THEN default ELSE val
\* x if x else None
OrNone(val) == IF val = <<>> THEN None ELSE val
\* text[:n]
Take(text, n) == SubSeq(text, 1, IF Len(text) < n THEN Len(text) ELSE n)

\* the workflow with a critic that sends a rejected answer back to the council
EdgeWithRetry(n, st) ==
    CASE n = "librarian" -> "router"
      [] n = "router" -> st.next_step
      [] n = "consensus" -> "critic"
      [] n = "critic" -> IF st.critique = Chars("APPROVED.") \/ Len(visited) > 4
                         THEN "END" ELSE "consensus"
      [] n = "exam" -> "END"

\* the edges of the workflow: the node that follows node n
Edge(n, st) ==
    CASE n = "librarian" -> "router"
      [] n = "router" -> st.next_step
      [] n = "consensus" -> "critic"
      [] n = "critic" -> "END"
      [] n = "exam" -> "END"

\* the try block of ask_question up to graph_app.invoke(inputs), which enters
\* the graph at its entry point
ask_question ==
    /\ node = "idle"
    /\ \E question \in Questions, context \in RequestContexts :
          state' = [NoState EXCEPT !.query = question_text(question, context)]
    /\ node' = "librarian"
    /\ UNCHANGED <<coordinator_vars, stream_vars, parse_vars, visited, reviews, raised, reply>>

\* a node lets an exception out: graph_app.invoke raises it in ask_question
NodeRaises(n, e) ==
    /\ visited' = Append(visited, n)
    /\ raised' = [state |-> "raised", val |-> e]
    /\ node' = "except"

librarian_node ==
    /\ node = "librarian"
    /\ \E context \in RetrieveResults :
          state' = [state EXCEPT !.context = context]
    /\ visited' = Append(visited, "librarian")
    /\ node' = Edge("librarian", state')
    /\ UNCHANGED <<coordinator_vars, stream_vars, parse_vars, reviews, raised, reply>>

\* router_node looking for "exam" as it is written, without .lower()
router_node_case_sensitive ==
    /\ node = "router"
    /\ state' = [state EXCEPT !.next_step =
                    IF \E i \in 1..Len(state.query) :
                          MatchAt(Chars("exam"), state.query, i, FALSE)
                    THEN "exam" ELSE "consensus"]
    /\ visited' = Append(visited, "router")
    /\ node' = Edge("router", state')
    /\ UNCHANGED <<coordinator_vars, stream_vars, parse_vars, reviews, raised, reply>>

\* query = state['messages'][0].content.lower(); "exam" in query
router_node ==
    /\ node = "router"
    /\ state' = [state EXCEPT !.next_step =
                    IF ContainsLower(state.query, Chars("exam"))
                    THEN "exam" ELSE "consensus"]
    /\ visited' = Append(visited, "router")
    /\ node' = Edge("router", state')
    /\ UNCHANGED <<coordinator_vars, stream_vars, parse_vars, reviews, raised, reply>>

\* result = f"Exam Generated successfully.\nFile saved at: {file_path}..."
ExamResult(exam_text, file_path) ==
    Chars("Exam Generated successfully.\nFile saved at: ") \o file_path
    \o Chars("\n\nPreview:\n") \o Take(exam_text, 500) \o Chars("...")

exam_node ==
    /\ node = "exam"
    /\ \/ /\ \E exam_text \in ExamTexts, file_path \in ExamPaths :
                state' = [state EXCEPT !.result = ExamResult(exam_text, file_path)]
          /\ visited' = Append(visited, "exam")
          /\ node' = Edge("exam", state')
          /\ UNCHANGED raised
       \/ /\ \E e \in CallErrors : NodeRaises("exam", e)
          /\ UNCHANGED state
    /\ UNCHANGED <<coordinator_vars, stream_vars, parse_vars, reviews, reply>>

\* "theory" in query.lower() or "concept" in query.lower() or "explain" in ...
MindmapWanted(query) ==
    \/ ContainsLower(query, Chars("theory"))
    \/ ContainsLower(query, Chars("concept"))
    \/ ContainsLower(query, Chars("explain"))

\* final_answer += f"\n\n### Concept Map\n![Mindmap]({mindmap_path})..."
WithConceptMap(final_answer, mindmap_path) ==
    final_answer \o Chars("\n\n### Concept Map\n![Mindmap](") \o mindmap_path
    \o Chars(")\n*(Image saved to: ") \o mindmap_path \o Chars(")*")

\* the three stages return the chair's answer (and the visualizer returns a
\* path or fails, which only prints a warning), or the chair call raises
consensus_node ==
    /\ node = "consensus"
    /\ \/ /\ \E final_answer \in ChairTexts :
                \/ /\ MindmapWanted(state.query)
                   /\ \E mindmap_path \in MindmapPaths :
                         state' = [state EXCEPT
                                     !.result = WithConceptMap(final_answer, mindmap_path),
                                     !.plan = Chars("Consensus Reached"),
                                     !.mindmap_path = mindmap_path]
                \/ state' = [state EXCEPT !.result = final_answer,
                                          !.plan = Chars("Consensus Reached"),
                                          !.mindmap_path = <<>>]
          /\ visited' = Append(visited, "consensus")
          /\ node' = Edge("consensus", state')
          /\ UNCHANGED raised
       \/ /\ \E e \in CallErrors : NodeRaises("consensus", e)
          /\ UNCHANGED state
    /\ UNCHANGED <<coordinator_vars, stream_vars, parse_vars, reviews, reply>>

\* critic_node handing the retrieved context to the critic
critic_node_reviews_context ==
    /\ node = "critic"
    /\ reviews' = Append(reviews, [query |-> state.query, plan |-> "Consensus Plan",
                                   code |-> "N/A", result |-> state.context])
    /\ \/ /\ \E critique \in CritiqueTexts :
                state' = [state EXCEPT !.critique = critique]
          /\ visited' = Append(visited, "critic")
          /\ node' = Edge("critic", state')
          /\ UNCHANGED raised
       \/ /\ \E e \in CallErrors : NodeRaises("critic", e)
          /\ UNCHANGED state
    /\ UNCHANGED <<coordinator_vars, stream_vars, parse_vars, reply>>

\* critique = critic.review(query, "Consensus Plan", "N/A", result)
critic_node ==
    /\ node = "critic"
    /\ reviews' = Append(reviews, [query |-> state.query, plan |-> "Consensus Plan",
                                   code |-> "N/A", result |-> state.result])
    /\ \/ /\ \E critique \in CritiqueTexts :
                state' = [state EXCEPT !.critique = critique]
          /\ visited' = Append(visited, "critic")
          /\ node' = Edge("critic", state')
          /\ UNCHANGED raised
       \/ /\ \E e \in CallErrors : NodeRaises("critic", e)
          /\ UNCHANGED state
    /\ UNCHANGED <<coordinator_vars, stream_vars, parse_vars, reply>>

\* graph_app.invoke returned: the QuestionResponse of the try block
ask_question_returns ==
    /\ node = "END"
    /\ reply' = [sent |-> TRUE,
                 answer |-> StateGet(state.result, Chars("No response generated.")),
                 critique |-> StateGet(state.critique, <<>>),
                 mindmapPath |-> OrNone(StateGet(state.mindmap_path, <<>>)),
                 context |-> OrNone(StateGet(state.context, <<>>)),
                 plan |-> OrNone(StateGet(state.plan, <<>>)),
                 success |-> TRUE, error |-> None]
    /\ node' = "replied"
    /\ UNCHANGED <<coordinator_vars, stream_vars, parse_vars, state, visited, reviews, raised>>

\* ask_question without its except clause: the exception leaves the handler
ask_question_reraises ==
    /\ node = "except"
    /\ node' = "crashed"
    /\ UNCHANGED <<coordinator_vars, stream_vars, parse_vars, state, visited, reviews, raised, reply>>

\* except Exception as e: the QuestionResponse of the failure
ask_question_except ==
    /\ node = "except"
    /\ reply' = [NoReply EXCEPT !.sent = TRUE, !.success = FALSE, !.error = raised.val]
    /\ node' = "replied"
    /\ UNCHANGED <<coordinator_vars, stream_vars, parse_vars, state, visited, reviews, raised>>

NextAsk ==
    \/ ask_question
    \/ librarian_node
    \/ router_node
    \/ exam_node
    \/ consensus_node
    \/ critic_node
    \/ ask_question_returns
    \/ ask_question_except

SpecAsk == Init /\ [][NextAsk]_vars

(***************************************************************************)
(* The streaming handler: ask_question_stream of brain_api/main.py. The    *)
(* thread of run_consensus puts events on progress_queue, generate_events  *)
(* polls the queue and yields what it finds. Each stage of the coordinator *)
(* is seen from run_consensus: the events it hands to progress_callback,   *)
(* in the order of its _emit calls, and the chair call of Stage 3.         *)
(***************************************************************************)
\* the events on the queue and on the stream, and the sentinel None
ProgressEvent(stage, agent, status) ==
    [type |-> "progress", stage |-> stage, agent |-> agent, status |-> status,
     message |-> <<>>, answer |-> <<>>, critique |-> <<>>, visualPath |-> None]
ErrorEvent(message) ==
    [type |-> "error", stage |-> "", agent |-> "", status |-> "",
     message |-> message, answer |-> <<>>, critique |-> <<>>, visualPath |-> None]
ResultEvent(holder) ==
    [type |-> "result", stage |-> "", agent |-> "", status |-> "",
     message |-> <<>>, answer |-> holder.answer, critique |-> holder.critique,
     visualPath |-> holder.visual_path]
Sentinel ==
    [type |-> "None", stage |-> "", agent |-> "", status |-> "",
     message |-> <<>>, answer |-> <<>>, critique |-> <<>>, visualPath |-> None]

\* str(e) of what a call of the thread may raise: a message, or none at all
WorkerErrors == CallErrors \cup {<<>>}
VisualPaths == {Chars("v.png")}

\* how the calls of one stage end, by participant: all return, the last one
\* raises, all raise
StageStatuses ==
    {[n \in MemberNames |-> "done"],
     [n \in MemberNames |-> IF n = COUNCIL_MEMBERS[Len(COUNCIL_MEMBERS)].name
                            THEN "error" ELSE "done"],
     [n \in MemberNames |-> "error"]}

\* the events of stage1_collect_responses, and of stage2_collect_rankings
\* when a draft is valid
StageScript(stage, st) ==
    EmitStarted(_emit(<<>>, stage, "system", "started"), stage)
    \o [i \in MemberIdx |-> Event(stage, COUNCIL_MEMBERS[i].name,
                                  st[COUNCIL_MEMBERS[i].name])]
    \o <<Event(stage, "system", "done")>>
\* the events of stage2_collect_rankings when no draft is valid
Stage2ScriptEmpty ==
    _emit(_emit(<<>>, "ranking", "system", "started"), "ranking", "system", "error")
\* the events of stage3_synthesize_final before and after the chair call
Stage3Opening(winner_member) ==
    _emit(_emit(_emit(<<>>, "synthesizing", "system", "started"),
                "synthesizing", winner_member, "started"),
          "synthesizing", "Chair", "started")
Stage3Closing ==
    _emit(_emit(<<>>, "synthesizing", "Chair", "done"), "synthesizing", "system", "done")

\* progress_queue.put(item)
Put(item) ==
    /\ progress_queue' = Append(progress_queue, item)
    /\ enqueued' = Append(enqueued, item)

\* request.question of a streamed request
StreamQuestions == {Chars("B=2m?"), Chars("Set an Exam")}

\* thread.start(): the thread and the polling loop begin
ask_question_stream_with(question, includeVisual) ==
    /\ worker = "idle"
    /\ request' = [question |-> question, includeVisual |-> includeVisual]
    /\ worker' = "start"
    /\ consumer' = "polling"
    /\ UNCHANGED <<coordinator_vars, graph_vars, parse_vars, todo, locals, progress_queue,
                   result_holder, emitted, enqueued, worker_raised>>

ask_question_stream ==
    \E q \in StreamQuestions, v \in BOOLEAN : ask_question_stream_with(q, v)

\* progress_queue.put(... "retrieving", "Librarian", "started" ...)
run_consensus_start ==
    /\ worker = "start"
    /\ Put(ProgressEvent("retrieving", "Librarian", "started"))
    /\ worker' = "retrieve"
    /\ UNCHANGED <<coordinator_vars, graph_vars, parse_vars, request, todo, locals, result_holder,
                   consumer, emitted, worker_raised>>

\* context = librarian.retrieve(question_text), which returns in every case,
\* and the put of Librarian done
run_consensus_retrieve ==
    /\ worker = "retrieve"
    /\ \E context \in RetrieveResults : locals' = [locals EXCEPT !.context = context]
    /\ Put(ProgressEvent("retrieving", "Librarian", "done"))
    /\ worker' = "stage1"
    /\ UNCHANGED <<coordinator_vars, graph_vars, parse_vars, request, todo, result_holder,
                   consumer, emitted, worker_raised>>

\* progress_callback(stage, agent, status, detail) for the next _emit of the
\* running stage
progress_callback ==
    /\ worker \in {"in_stage1", "in_stage2", "in_stage3", "after_chair"}
    /\ todo # <<>>
    /\ Put(ProgressEvent(Head(todo).stage, Head(todo).agent, Head(todo).status))
    /\ todo' = Tail(todo)
    /\ UNCHANGED <<coordinator_vars, graph_vars, parse_vars, request, worker, locals, result_holder,
                   consumer, emitted, worker_raised>>

\* consensus.stage1_collect_responses(question_text, context) is entered
run_consensus_stage1 ==
    /\ worker = "stage1"
    /\ \E st \in StageStatuses :
          /\ todo' = StageScript("collecting", st)
          /\ locals' = [locals EXCEPT !.valid =
                           SelectSeq([i \in MemberIdx |-> COUNCIL_MEMBERS[i].name],
                                     LAMBDA n : st[n] = "done")]
    /\ worker' = "in_stage1"
    /\ UNCHANGED <<coordinator_vars, graph_vars, parse_vars, request, progress_queue, result_holder,
                   consumer, emitted, enqueued, worker_raised>>

\* Stage 1 has returned; consensus.stage2_collect_rankings(responses) is entered
run_consensus_stage2 ==
    /\ worker = "in_stage1"
    /\ todo = <<>>
    /\ IF locals.valid = <<>>
       THEN todo' = Stage2ScriptEmpty
       ELSE \E st \in StageStatuses : todo' = StageScript("ranking", st)
    /\ worker' = "in_stage2"
    /\ UNCHANGED <<coordinator_vars, graph_vars, parse_vars, request, locals, progress_queue,
                   result_holder, consumer, emitted, enqueued, worker_raised>>

\* Stage 2 has returned; consensus.stage3_synthesize_final(...) is entered
run_consensus_stage3 ==
    /\ worker = "in_stage2"
    /\ todo = <<>>
    /\ todo' = Stage3Opening(IF locals.valid = <<>> THEN "Unknown"
                              ELSE Head(locals.valid))
    /\ worker' = "in_stage3"
    /\ UNCHANGED <<coordinator_vars, graph_vars, parse_vars, request, locals, progress_queue,
                   result_holder, consumer, emitted, enqueued, worker_raised>>

\* an exception reaches `except Exception as e` of run_consensus
WorkerRaises(e) ==
    /\ worker_raised' = [state |-> "raised", val |-> e]
    /\ worker' = "except"

\* the chair's call_llm of Stage 3 returns, or raises
run_consensus_chair ==
    /\ worker = "in_stage3"
    /\ todo = <<>>
    /\ \/ /\ \E t \in ChairTexts : locals' = [locals EXCEPT !.final_answer = t]
          /\ todo' = Stage3Closing
          /\ worker' = "after_chair"
          /\ UNCHANGED worker_raised
       \/ /\ \E e \in WorkerErrors : WorkerRaises(e)
          /\ UNCHANGED <<todo, locals>>
    /\ UNCHANGED <<coordinator_vars, graph_vars, parse_vars, request, progress_queue, result_holder,
                   consumer, emitted, enqueued>>

\* Stage 3 has returned: progress_queue.put(... "reviewing", "Critic", "started" ...)
run_consensus_critic_started ==
    /\ worker = "after_chair"
    /\ todo = <<>>
    /\ Put(ProgressEvent("reviewing", "Critic", "started"))
    /\ worker' = "critic"
    /\ UNCHANGED <<coordinator_vars, graph_vars, parse_vars, request, todo, locals, result_holder,
                   consumer, emitted, worker_raised>>

\* critique = critic.review(...) returns, and the put of Critic done; or raises
run_consensus_critic ==
    /\ worker = "critic"
    /\ \/ /\ \E c \in CritiqueTexts : locals' = [locals EXCEPT !.critique = c]
          /\ Put(ProgressEvent("reviewing", "Critic", "done"))
          /\ worker' = "store_answer"
          /\ UNCHANGED worker_raised
       \/ /\ \E e \in WorkerErrors : WorkerRaises(e)
          /\ UNCHANGED <<locals, progress_queue, enqueued>>
    /\ UNCHANGED <<coordinator_vars, graph_vars, parse_vars, request, todo, result_holder,
                   consumer, emitted>>

\* result_holder["answer"] = final_answer
run_consensus_store_answer ==
    /\ worker = "store_answer"
    /\ result_holder' = [result_holder EXCEPT !.answer = locals.final_answer]
    /\ worker' = "store_critique"
    /\ UNCHANGED <<coordinator_vars, graph_vars, parse_vars, request, todo, locals, progress_queue,
                   consumer, emitted, enqueued, worker_raised>>

\* result_holder["critique"] = critique, and
\* `if request.includeVisual and request.visualType`
run_consensus_store_critique ==
    /\ worker = "store_critique"
    /\ result_holder' = [result_holder EXCEPT !.critique = locals.critique]
    /\ worker' = IF request.includeVisual THEN "visual" ELSE "finally"
    /\ UNCHANGED <<coordinator_vars, graph_vars, parse_vars, request, todo, locals, progress_queue,
                   consumer, emitted, enqueued, worker_raised>>

\* progress_queue.put(... "visualizing", "Visualizer", "started" ...)
run_consensus_visual_started ==
    /\ worker = "visual"
    /\ Put(ProgressEvent("visualizing", "Visualizer", "started"))
    /\ worker' = "generate"
    /\ UNCHANGED <<coordinator_vars, graph_vars, parse_vars, request, todo, locals, result_holder,
                   consumer, emitted, worker_raised>>

\* the inner try: the generator gives an image, gives none, or raises, which
\* the inner except turns into the Visualizer error event
run_consensus_generate ==
    /\ worker = "generate"
    /\ \/ /\ \E image_path \in VisualPaths :
                result_holder' = [result_holder EXCEPT !.visual_path = image_path]
          /\ Put(ProgressEvent("visualizing", "Visualizer", "done"))
       \/ /\ Put(ProgressEvent("visualizing", "Visualizer", "done"))
          /\ UNCHANGED result_holder
       \/ /\ Put(ProgressEvent("visualizing", "Visualizer", "error"))
          /\ UNCHANGED result_holder
    /\ worker' = "visual_done"
    /\ UNCHANGED <<coordinator_vars, graph_vars, parse_vars, request, todo, locals,
                   consumer, emitted, worker_raised>>

\* progress_queue.put(... "visualizing", "system", "done" ...)
run_consensus_visual_done ==
    /\ worker = "visual_done"
    /\ Put(ProgressEvent("visualizing", "system", "done"))
    /\ worker' = "finally"
    /\ UNCHANGED <<coordinator_vars, graph_vars, parse_vars, request, todo, locals, result_holder,
                   consumer, emitted, worker_raised>>

\* except Exception as e: result_holder["error"] = str(e)
run_consensus_except ==
    /\ worker = "except"
    /\ result_holder' = [result_holder EXCEPT !.error = worker_raised.val]
    /\ worker' = "except_put"
    /\ UNCHANGED <<coordinator_vars, graph_vars, parse_vars, request, todo, locals, progress_queue,
                   consumer, emitted, enqueued, worker_raised>>

\* run_consensus_except_put with the sentinel put at the end of the try block
\* instead of in a finally clause
run_consensus_except_put_ends ==
    /\ worker = "except_put"
    /\ Put(ErrorEvent(worker_raised.val))
    /\ worker' = "finished"
    /\ UNCHANGED <<coordinator_vars, graph_vars, parse_vars, request, todo, locals, result_holder,
                   consumer, emitted, worker_raised>>

\* progress_queue.put({"type": "error", "message": str(e)})
run_consensus_except_put ==
    /\ worker = "except_put"
    /\ Put(ErrorEvent(worker_raised.val))
    /\ worker' = "finally"
    /\ UNCHANGED <<coordinator_vars, graph_vars, parse_vars, request, todo, locals, result_holder,
                   consumer, emitted, worker_raised>>

\* finally: progress_queue.put(None)
run_consensus_finally ==
    /\ worker = "finally"
    /\ Put(Sentinel)
    /\ worker' = "finished"
    /\ UNCHANGED <<coordinator_vars, graph_vars, parse_vars, request, todo, locals, result_holder,
                   consumer, emitted, worker_raised>>

\* `if result_holder["error"]`: None and "" are both false
Truthy(text) == text # None /\ text # <<>>

\* the event yielded for the sentinel
final_event(holder) ==
    IF Truthy(holder.error) THEN ErrorEvent(holder.error) ELSE ResultEvent(holder)

\* a Queue that hands out its newest item
get_newest(queue) ==
    [event |-> queue[Len(queue)], rest |-> SubSeq(queue, 1, Len(queue) - 1)]

\* progress_queue.get_nowait(): the oldest item leaves the queue
get_nowait(queue) == [event |-> Head(queue), rest |-> Tail(queue)]

\* one turn of `while not progress_queue.empty()`: the item is yielded, or,
\* for the sentinel, the final event is yielded and the generator returns
generate_events ==
    /\ consumer = "polling"
    /\ progress_queue # <<>>
    /\ LET got == get_nowait(progress_queue) IN
          /\ progress_queue' = got.rest
          /\ IF got.event = Sentinel
             THEN /\ emitted' = Append(emitted, final_event(result_holder))
                  /\ consumer' = "returned"
             ELSE /\ emitted' = Append(emitted, got.event)
                  /\ UNCHANGED consumer
    /\ UNCHANGED <<coordinator_vars, graph_vars, parse_vars, request, worker, todo, locals,
                   result_holder, enqueued, worker_raised>>

NextStream ==
    \/ ask_question_stream
    \/ run_consensus_start
    \/ run_consensus_retrieve
    \/ progress_callback
    \/ run_consensus_stage1
    \/ run_consensus_stage2
    \/ run_consensus_stage3
    \/ run_consensus_chair
    \/ run_consensus_critic_started
    \/ run_consensus_critic
    \/ run_consensus_store_answer
    \/ run_consensus_store_critique
    \/ run_consensus_visual_started
    \/ run_consensus_generate
    \/ run_consensus_visual_done
    \/ run_consensus_except
    \/ run_consensus_except_put
    \/ run_consensus_finally
    \/ generate_events

SpecStream == Init /\ [][NextStream]_vars

\* the steps of the thread started by thread.start()
run_consensus ==
    \/ run_consensus_start
    \/ run_consensus_retrieve
    \/ progress_callback
    \/ run_consensus_stage1
    \/ run_consensus_stage2
    \/ run_consensus_stage3
    \/ run_consensus_chair
    \/ run_consensus_critic_started
    \/ run_consensus_critic
    \/ run_consensus_store_answer
    \/ run_consensus_store_critique
    \/ run_consensus_visual_started
    \/ run_consensus_generate
    \/ run_consensus_visual_done
    \/ run_consensus_except
    \/ run_consensus_except_put
    \/ run_consensus_finally

\* the thread runs on as long as its calls return or raise, and the event
\* loop wakes generate_events from asyncio.sleep(0.1) again and again
\* (no step of the thread or of the generator reads request.question: one
\* question stands for all)
NextStreamLive ==
    \/ \E v \in BOOLEAN : ask_question_stream_with(Chars("B=2m?"), v)
    \/ run_consensus
    \/ generate_events

SpecStreamLive ==
    Init /\ [][NextStreamLive]_vars /\ WF_vars(run_consensus) /\ WF_vars(generate_events)

(***************************************************************************)
(* parse_ranking call by call (src/src/agents/consensus.py:348-412): the   *)
(* try block runs its six patterns one after the other.                    *)
(***************************************************************************)
\* how many calls of parse_ranking are followed
MaxCalls == 2

\* the labels the solutions of the council can carry, and the sequences of
\* them a reviewer of that council writes: one place for each solution at most
RankedLabels == {labels[i] : i \in MemberIdx}
LabelSeqs == UNION {[1..n -> RankedLabels] : n \in MemberIdx}

\* the pieces a reviewer's verdict is written with
Declaration == Chars("FINAL RANKING: ")
Delims == {Chars(" > "), Chars(", "), Chars("-")}
Rests == {<<>>, Chars("."), Chars("\nCRITIQUE: ok")}
Ordinals == <<"1", "2", "3", "4", "5">>
OrdinalMarks == {".", ")", ":"}
ItemJoins == {Chars(" "), Chars("\n")}

RECURSIVE Join(_, _)
Join(seq, delim) ==
    IF Len(seq) = 1 THEN <<seq[1]>>
    ELSE Join(SubSeq(seq, 1, Len(seq) - 1), delim) \o delim \o <<seq[Len(seq)]>>

\* "FINAL RANKING: A > C > B" and what follows it
Declared(seq, delim, rest) == Declaration \o Join(seq, delim) \o rest

\* "1. B 2. A 3. C"
RECURSIVE Numbered(_, _, _)
Numbered(seq, mark, join) ==
    LET n == Len(seq)
        item == <<Ordinals[n], mark, " ", seq[n]>>
    IN  IF n = 1 THEN item
        ELSE Numbered(SubSeq(seq, 1, n - 1), mark, join) \o join \o item

DeclaredTexts == {Declared(s, d, r) : s \in LabelSeqs, d \in Delims, r \in Rests}
NumberedTexts == {Numbered(s, m, j) : s \in LabelSeqs, m \in OrdinalMarks, j \in ItemJoins}

\* verdicts in the other forms the docstring and the patterns speak of
FreeTexts == { Chars("Best: A, Second: B, Third: C"),
               Chars("Solution B wins, then Solution A"),
               Chars("I prefer C, A overall"),
               Chars("My order: C then A then C"),
               Chars("Best is b"),
               Chars("FINAL RANKING: none. 1. C 2. A"),
               Chars("C then A"),
               Chars("D beats A; E is best"),
               Chars("Reorder: B_ then A1 and E's, B") }

ParseTexts == ReviewTexts \cup VerdictTexts \cup FreeTexts
                 \cup DeclaredTexts \cup NumberedTexts
\* what a caller can pass: a text, or something that is not a text
ParseInputs == ParseTexts \cup {None}

\* the tokens of each pattern for each text
RuleTable == [t \in ParseTexts |-> [k \in 1..6 |-> RuleTokens(k, t)]]

\* def parse_ranking(self, text): the try block is entered
ParseCall(text) ==
    /\ parser.pc = "idle"
    /\ Len(returns) < MaxCalls
    /\ returns # <<>> => text \in ReviewTexts \cup {returns[i].text : i \in 1..Len(returns)}
    /\ parser' = [pc |-> "try", text |-> text, rule |-> 1, tokens |-> <<>>]
    /\ UNCHANGED <<coordinator_vars, graph_vars, stream_vars, returns>>

\* ParseRule letting a later pattern that yields labels overrule an earlier one
ParseRuleLastWins ==
    /\ parser.pc = "try"
    /\ parser.text # None
    /\ parser.rule <= 6
    /\ LET clean_tokens == RuleTable[parser.text][parser.rule]
           overruled == \E k \in (parser.rule + 1)..6 : RuleTable[parser.text][k] # <<>>
       IN  parser' = IF clean_tokens # <<>> /\ ~overruled
                     THEN [parser EXCEPT !.pc = "return", !.tokens = clean_tokens]
                     ELSE [parser EXCEPT !.rule = @ + 1]
    /\ UNCHANGED <<coordinator_vars, graph_vars, stream_vars, returns>>

\* ParseRule keeping only the labels that label_map holds
ParseRuleByLabelMap ==
    /\ parser.pc = "try"
    /\ parser.text # None
    /\ parser.rule <= 6
    /\ LET clean_tokens == SelectSeq(RuleTable[parser.text][parser.rule],
                                     LAMBDA t : DictHas(label_map, t))
       IN  parser' = IF clean_tokens # <<>>
                     THEN [parser EXCEPT !.pc = "return", !.tokens = clean_tokens]
                     ELSE [parser EXCEPT !.rule = @ + 1]
    /\ UNCHANGED <<coordinator_vars, graph_vars, stream_vars, returns>>

\* Patterns 1 to 6: `if clean_tokens: return clean_tokens`, else the next one
ParseRule ==
    /\ parser.pc = "try"
    /\ parser.text # None
    /\ parser.rule <= 6
    /\ LET clean_tokens == RuleTable[parser.text][parser.rule]
       IN  parser' = IF clean_tokens # <<>>
                     THEN [parser EXCEPT !.pc = "return", !.tokens = clean_tokens]
                     ELSE [parser EXCEPT !.rule = @ + 1]
    /\ UNCHANGED <<coordinator_vars, graph_vars, stream_vars, returns>>

\* `return []` after the last pattern
ParseNoMatch ==
    /\ parser.pc = "try"
    /\ parser.rule > 6
    /\ parser' = [parser EXCEPT !.pc = "return", !.tokens = <<>>]
    /\ UNCHANGED <<coordinator_vars, graph_vars, stream_vars, returns>>

\* ParseExcept letting the exception out
ParseExceptReraises ==
    /\ parser.pc = "try"
    /\ parser.text = None
    /\ parser' = [parser EXCEPT !.pc = "raised"]
    /\ UNCHANGED <<coordinator_vars, graph_vars, stream_vars, returns>>

\* re.search raises TypeError for an input that is not a text:
\* `except Exception: return []`
ParseExcept ==
    /\ parser.pc = "try"
    /\ parser.text = None
    /\ parser' = [parser EXCEPT !.pc = "return", !.tokens = <<>>]
    /\ UNCHANGED <<coordinator_vars, graph_vars, stream_vars, returns>>

\* the caller has the list
ParseReturn ==
    /\ parser.pc = "return"
    /\ returns' = Append(returns, [text |-> parser.text, order |-> parser.tokens,
                                   rule |-> parser.rule])
    /\ parser' = NoCall
    /\ UNCHANGED <<coordinator_vars, graph_vars, stream_vars>>

\* stage2_collect_rankings of another request builds its own label_map
Stage2Relabels ==
    /\ parser.pc = "idle"
    /\ \E n \in 0..Len(COUNCIL_MEMBERS) :
          LET valid == [i \in 1..n |-> COUNCIL_MEMBERS[i].name]
          IN  /\ BuildLabelMap(valid) # label_map
              /\ label_map' = BuildLabelMap(valid)
    /\ UNCHANGED <<handler_vars, on_progress, pc, futures, calls, events, responses, rankings,
                   scores, cursor, winner, final_res>>

NextParse ==
    \/ \E text \in ParseInputs : ParseCall(text)
    \/ ParseRule
    \/ ParseNoMatch
    \/ ParseExcept
    \/ ParseReturn
    \/ Stage2Relabels

SpecParse == Init /\ [][NextParse]_vars

(***************************************************************************)
(* What the claims speak of.                                               *)
(***************************************************************************)
Range(q) == {q[i] : i \in 1..Len(q)}
AfterStage1 == pc \notin {"stage1", "collecting"}
AfterStage2Start == pc \notin {"stage1", "collecting", "stage2"}
AfterStage2 == pc \in {"stage3", "scoring", "chair", "done", "failed"}
ChairCalled == pc \in {"chair", "done", "failed"}
\* the participants whose Stage-1 call returned, and those whose call raised
Stage1Returned == {n \in MemberNames : /\ futures["collecting"][n].state \in {"finished", "collected"}
                                       /\ futures["collecting"][n].ok}
Stage1Raised == {n \in MemberNames : /\ futures["collecting"][n].state \in {"finished", "collected"}
                                     /\ ~futures["collecting"][n].ok}
Stage2Returned == {n \in MemberNames : /\ futures["ranking"][n].state = "collected"
                                       /\ futures["ranking"][n].ok}
Stage2Raised == {n \in MemberNames : /\ futures["ranking"][n].state = "collected"
                                     /\ ~futures["ranking"][n].ok}
CallsOf(stage) == {i \in 1..Len(calls) : calls[i].stage = stage}
LabelMapMembers == {label_map[i].v : i \in 1..Len(label_map)}
RankingsOf(n) == {i \in 1..Len(rankings) : rankings[i].reviewer = n}

\* C1: whatever each participant's generation call does (return or raise),
\* Stage 1 returns exactly one draft per configured participant, keyed by
\* distinct participants; a raising call is recorded as that participant's
\* error draft, and every recorded draft is the one of its own participant's
\* call (no sibling's draft is dropped or replaced).
C1_Stage1OneDraftPerParticipant ==
    /\ Len(responses) = Cardinality(DictKeySet(responses))
    /\ pc = "collecting" =>
          DictKeySet(responses) =
             {n \in MemberNames : futures["collecting"][n].state = "collected"}
    /\ AfterStage1 =>
          /\ Len(responses) = Len(COUNCIL_MEMBERS)
          /\ DictKeySet(responses) = MemberNames
    /\ \A n \in DictKeySet(responses) :
          LET f == futures["collecting"][n] IN
          DictGet(responses, n, <<>>) =
             IF f.ok THEN Processed[f.val] ELSE Chars("Error: ") \o f.val

\* Stage 1 has returned with a call that raised and a call that returned
C1_Witness ==
    /\ pc = "stage2"
    /\ Stage1Raised # {}
    /\ Stage1Returned # {}

\* C2 (as claimed): with an empty Label Map, Stage 3 ends without raising and
\* without any outbound call: the chair is never called.
C2_NoChairCallOnEmptyLabelMap ==
    (ChairCalled /\ label_map = <<>>) =>
        /\ CallsOf("synthesizing") = {}
        /\ pc # "failed"

\* C3: when every draft handed to Stage 2 is an error draft, Stage 2 returns
\* an empty ranking list and an empty Label Map and issues no reviewer call.
C3_AllErrorsSkipStage2 ==
    (AfterStage2Start /\ Stage1Raised = MemberNames) =>
        /\ rankings = <<>>
        /\ label_map = <<>>
        /\ CallsOf("ranking") = {}
        /\ \A n \in MemberNames : futures["ranking"][n].state = "none"
        /\ AfterStage2

\* Stage 2 has returned on three error drafts
C3_Witness ==
    /\ pc = "stage3"
    /\ Stage1Raised = MemberNames

\* C4 (as claimed): once the three stages have run with at least one
\* participant whose Stage-1 call returned, the draft in the chair's prompt is
\* the draft of a participant of the Label Map whose call did not raise; and
\* with two calls returned and one raised the Label Map has two entries.
C4_WinnerIsASurvivingDraft ==
    /\ (ChairCalled /\ Stage1Returned # {}) =>
          /\ winner.member \in LabelMapMembers
          /\ winner.member \in Stage1Returned
          /\ \A i \in CallsOf("synthesizing") :
                calls[i].prompt.best_solution = DictGet(responses, winner.member, <<>>)
    /\ (AfterStage2Start /\ Cardinality(Stage1Returned) = 2 /\ Cardinality(Stage1Raised) = 1)
          => Len(label_map) = 2

\* C5 (as claimed): the Label Map is a bijection between its labels and the
\* surviving participants, with as many labels as non-error drafts.
C5_LabelMapBijection ==
    AfterStage2Start =>
        /\ Cardinality(DictKeySet(label_map)) = Len(label_map)
        /\ Cardinality(LabelMapMembers) = Len(label_map)
        /\ LabelMapMembers \subseteq MemberNames
        /\ Len(label_map) = Cardinality(Stage1Returned)

\* C6 (as claimed): every participant whose Stage-1 call returned a draft,
\* and for whom Stage 1 emitted 'done', has a label, whatever the draft says.
C6_EveryReturnedDraftIsLabelled ==
    AfterStage2Start =>
        \A n \in MemberNames :
            (n \in Stage1Returned /\ Event("collecting", n, "done") \in Range(events))
                => n \in LabelMapMembers

\* C7: with a non-empty Label Map, Stage 2 issues exactly one reviewer call
\* to every configured participant, those whose own draft was an error
\* included, and every reviewer gets the same anonymized prompt.
C7_EveryParticipantReviewsOnce ==
    (AfterStage2Start /\ label_map # <<>>) =>
        /\ \A n \in MemberNames :
              Cardinality({i \in CallsOf("ranking") : calls[i].to = n}) = 1
        /\ Cardinality(CallsOf("ranking")) = Len(COUNCIL_MEMBERS)
        /\ \A i, j \in CallsOf("ranking") : calls[i].prompt = calls[j].prompt
        /\ \A i \in CallsOf("ranking") : calls[i].prompt.kind = "rank"

\* the reviewers are at work, one of them without a valid draft of its own
C7_Witness ==
    /\ pc = "ranking"
    /\ label_map # <<>>
    /\ MemberNames \ LabelMapMembers # {}
    /\ Stage1Raised # {}

\* C8: the ranking list holds exactly one Ranking per reviewer whose call
\* returned, an empty parsed order included, none for a reviewer whose call
\* raised, and no reviewer is called a second time.
C8_OneRankingPerReturnedReviewer ==
    /\ \A n \in MemberNames :
          Cardinality(RankingsOf(n)) = IF n \in Stage2Returned THEN 1 ELSE 0
    /\ \A i \in 1..Len(rankings) :
          rankings[i].raw_text = futures["ranking"][rankings[i].reviewer].val
    /\ AfterStage2 => Len(rankings) = Cardinality(Stage2Returned)
    /\ \A n \in MemberNames :
          Cardinality({i \in CallsOf("ranking") : calls[i].to = n}) <= 1

\* Stage 2 has returned: one reviewer's call raised, one reviewer's verdict
\* parsed to nothing
C8_Witness ==
    /\ pc = "stage3"
    /\ Stage2Raised # {}
    /\ \E i \in 1..Len(rankings) : rankings[i].parsed_order = <<>>

\* C9 (as claimed): every label of every Ranking's parsed order is a key of
\* the Label Map of the same Stage 2 call.
C9_ParsedLabelsAreInLabelMap ==
    \A i \in 1..Len(rankings) :
        Range(rankings[i].parsed_order) \subseteq DictKeySet(label_map)

\* C10: throughout Stage 3 the keys of the Score Table are keys of the Label
\* Map, and the winner label, when there is one, is a key of the Score Table.
C10_ScoreKeysWithinLabelMap ==
    /\ DictKeySet(scores) \subseteq DictKeySet(label_map)
    /\ (ChairCalled /\ winner.label # "None") => winner.label \in DictKeySet(scores)

\* a winner is chosen after a Ranking naming a label outside the Label Map
\* was counted
C10_Witness ==
    /\ pc = "chair"
    /\ winner.label \in DictKeySet(scores)
    /\ \E i \in 1..Len(rankings) :
          ~(Range(rankings[i].parsed_order) \subseteq DictKeySet(label_map))

(***************************************************************************)
(* Stage 3: the Score Table, the winner, the chair call.                   *)
(***************************************************************************)
\* the points the position of a label is worth, positions counted from 1
PositionPoints(p) == CASE p = 1 -> 3 [] p = 2 -> 2 [] p = 3 -> 1 [] OTHER -> 0

\* the points one parsed order gives a label, from position p on
RECURSIVE OrderPoints(_, _, _)
OrderPoints(order, label, p) ==
    IF p > Len(order) THEN 0
    ELSE (IF order[p] = label THEN PositionPoints(p) ELSE 0)
         + OrderPoints(order, label, p + 1)

\* the points the first n Rankings give a label
RECURSIVE RankingsPoints(_, _, _)
RankingsPoints(rks, label, n) ==
    IF n = 0 THEN 0
    ELSE OrderPoints(rks[n].parsed_order, label, 1) + RankingsPoints(rks, label, n - 1)

\* the Rankings counted so far
Counted == IF pc = "scoring" THEN cursor - 1 ELSE Len(rankings)
Scored == pc \in {"scoring", "chair", "done", "failed"}
OrdersOf(rks) == [i \in 1..Len(rks) |-> rks[i].parsed_order]

\* C11: for every Label Map and every list of Rankings, the Score Table has
\* the labels of the Label Map, and the score of each label is the sum, over
\* the Rankings counted and the positions at which the label occurs, of
\* 3, 2, 1 points for the first three positions and 0 for every later one;
\* so a Ranking with an empty parsed order changes no score.
C11_ScoreIsSumOfPositionPoints ==
    Scored =>
       /\ DictKeys(scores) = DictKeys(label_map)
       /\ \A i \in 1..Len(scores) :
             scores[i].v = RankingsPoints(rankings, scores[i].k, Counted)
       /\ (Counted > 0 /\ rankings[Counted].parsed_order = <<>>) =>
             \A i \in 1..Len(scores) :
                scores[i].v = RankingsPoints(rankings, scores[i].k, Counted - 1)

\* all Rankings are counted: one has an empty parsed order, one names a
\* label of the Label Map beyond the third position, and a label has points
C11_Witness ==
    /\ pc = "chair"
    /\ \E n \in 1..Len(rankings) : rankings[n].parsed_order = <<>>
    /\ \E n \in 1..Len(rankings) : \E p \in 1..Len(rankings[n].parsed_order) :
          /\ p > 4
          /\ DictHas(label_map, rankings[n].parsed_order[p])
    /\ \E i \in 1..Len(scores) : scores[i].v > 0

\* the points of a label in the Score Table
ScoreOf(label) == DictGet(scores, label, 0)
\* the example of the claim: [[A, B, C], [B, A, C]] over the labels A, B, C
ExampleRankings == << <<"A", "B", "C">>, <<"B", "A", "C">> >>
ExampleCase ==
    /\ DictKeys(label_map) = <<"A", "B", "C">>
    /\ OrdersOf(rankings) = ExampleRankings

\* C12: whenever Stage 3 chooses a winner, it is a label of the Score Table
\* and no label of the table has more points; with an empty table there is
\* no winner label. For the rankings [[A, B, C], [B, A, C]] over the labels
\* A, B, C the scores are A = 5, B = 5, C = 2 and the winner is A or B.
C12_WinnerHasMaximalScore ==
    ChairCalled =>
       /\ scores = <<>> => winner.label = "None"
       /\ scores # <<>> =>
             /\ DictHas(scores, winner.label)
             /\ \A i \in 1..Len(scores) : scores[i].v <= ScoreOf(winner.label)
       /\ ExampleCase =>
             /\ ScoreOf("A") = 5 /\ ScoreOf("B") = 5 /\ ScoreOf("C") = 2
             /\ winner.label \in {"A", "B"}

\* the winner of the example is chosen
C12_Witness ==
    /\ pc = "chair"
    /\ ExampleCase
    /\ winner.label \in {"A", "B"}

\* C13: when the Label Map is not empty, Stage 3 makes no outbound call
\* before the winner is chosen and exactly one after, and that call goes to
\* the chair (deepseek, deepseek-chat), whichever participant's draft won.
C13_OneCallToTheChair ==
    (AfterStage2 /\ label_map # <<>>) =>
       /\ Cardinality(CallsOf("synthesizing")) = IF ChairCalled THEN 1 ELSE 0
       /\ \A i \in CallsOf("synthesizing") :
             /\ calls[i].to = "Chair"
             /\ calls[i].family = "deepseek"
             /\ calls[i].model = "deepseek-chat"

\* the chair has answered in a run won by the draft of a participant that is
\* not served by the chair's model
C13_Witness ==
    /\ pc = "done"
    /\ label_map # <<>>
    /\ winner.member \in MemberNames \ {"Member_DeepSeek"}
    /\ Cardinality(CallsOf("synthesizing")) = 1

(***************************************************************************)
(* The synchronous handler and the orchestrator.                           *)
(***************************************************************************)
Replied == node = "replied"
Last(q) == q[Len(q)]
IsPrefix(a, b) == Len(a) <= Len(b) /\ a = SubSeq(b, 1, Len(a))

DeliberatePath == <<"librarian", "router", "consensus", "critic">>
DraftExamPath == <<"librarian", "router", "exam">>
PathTaken == IF state.next_step = "exam" THEN DraftExamPath ELSE DeliberatePath

\* C19: for one request the nodes run are Retrieve, Route, then Deliberate
\* and Critique, or DraftExam, in this order and each at most once: the nodes
\* run so far are a start of one of the two paths, the next node is the one
\* that follows on the path, and a successful response ends a whole path.
C19_OneForwardPass ==
    /\ IsPrefix(visited, PathTaken)
    /\ \A i, j \in 1..Len(visited) : i # j => visited[i] # visited[j]
    /\ node \in {"librarian", "router", "consensus", "critic", "exam"} =>
          /\ raised.state = "none"
          /\ Len(visited) < Len(PathTaken)
          /\ node = PathTaken[Len(visited) + 1]
    /\ (node = "END" \/ (Replied /\ reply.success)) => visited = PathTaken

\* a request answered after Deliberate and Critique
C19_Witness ==
    /\ Replied
    /\ reply.success
    /\ visited = DeliberatePath

\* C20: a request routed to DraftExam ends without running Deliberate or
\* Critique and without a call of the critic; Critique runs only after
\* Deliberate has stored its Final Answer, and the critic is called once,
\* with the query and the stored Final Answer.
C20_CritiqueFollowsDeliberate ==
    /\ state.next_step = "exam" =>
          /\ node \in {"exam", "END", "except", "replied"}
          /\ reviews = <<>>
          /\ \A i \in 1..Len(visited) : visited[i] \notin {"consensus", "critic"}
    /\ (node = "critic" \/ reviews # <<>>) =>
          /\ state.result # Unset
          /\ \E i \in 1..Len(visited) : visited[i] = "consensus"
    /\ Len(reviews) <= 1
    /\ \A i \in 1..Len(reviews) :
          /\ reviews[i].query = state.query
          /\ reviews[i].result = state.result

\* the critic has reviewed a Final Answer that carries a concept map, and the
\* request is answered
C20_Witness ==
    /\ Replied
    /\ Len(reviews) = 1
    /\ Last(visited) = "critic"
    /\ state.mindmap_path \in MindmapPaths
    /\ reviews[1].result = state.result

(***************************************************************************)
(* The Progress Events of the coordinator.                                 *)
(***************************************************************************)
\* C17: in every stage and for every actor, a done or error Progress Event
\* comes after a started event of the same actor in the same stage, in the
\* order of emission, whatever the order in which the calls complete.
C17_StartedBeforeDoneOrError ==
    \A i \in 1..Len(events) :
       events[i].status \in {"done", "error"} =>
          \E j \in 1..(i - 1) :
             /\ events[j].status = "started"
             /\ events[j].agent = events[i].agent
             /\ events[j].stage = events[i].stage

\* Stage 2 is over: the last participant was collected before the first,
\* one with an error event and one with a done event
C17_Witness ==
    /\ pc = "stage3"
    /\ \E i, j \in 1..Len(events) :
          /\ i < j
          /\ events[i] = Event("ranking", COUNCIL_MEMBERS[3].name, "error")
          /\ events[j] = Event("ranking", COUNCIL_MEMBERS[1].name, "done")

(***************************************************************************)
(* The streaming handler.                                                  *)
(***************************************************************************)
Terminal(event) == event.type \in {"result", "error"}
Front(q) == SubSeq(q, 1, Len(q) - 1)
StreamEnded == consumer = "returned"
WorkerRaised == worker_raised.state = "raised"

\* C15: every run of the streaming variant yields progress events and then
\* exactly one terminal event, a result or an error: a terminal event is the
\* last event of the stream, the generator has returned with it, and an
\* ended stream ends with a terminal event.
C15_OneTerminalEventAtTheEnd ==
    /\ \A i \in 1..Len(emitted) :
          Terminal(emitted[i]) => (i = Len(emitted) /\ StreamEnded)
    /\ StreamEnded => (emitted # <<>> /\ Terminal(Last(emitted)))

\* C16: when the thread of run_consensus raised, the stream ends with the
\* error event carrying the text of the exception and holds no result event;
\* a result event is yielded only when the thread ended without raising.
C16_RaiseEndsInErrorEvent ==
    /\ (WorkerRaised /\ StreamEnded) => Last(emitted) = ErrorEvent(worker_raised.val)
    /\ \A i \in 1..Len(emitted) :
          emitted[i].type = "result" => (~WorkerRaised /\ worker = "finished")

\* what was put before the sentinel
BeforeSentinel(q) == SelectSeq(q, LAMBDA item : item # Sentinel)
\* what the stream has forwarded from the queue
Forwarded == IF StreamEnded THEN Front(emitted) ELSE emitted

\* C18: the stream forwards what was put on the queue before the sentinel,
\* all of it and in the order of the puts, before the final event: at every
\* moment what was put is what was forwarded followed by what is still
\* queued, and the generator returns only when the sentinel, the last item
\* put, has left an otherwise empty queue.
C18_QueueForwardedInOrder ==
    /\ BeforeSentinel(enqueued) = Forwarded \o BeforeSentinel(progress_queue)
    /\ enqueued = Forwarded \o (IF StreamEnded THEN <<Sentinel>> ELSE <<>>)
                  \o progress_queue
    /\ StreamEnded =>
          /\ progress_queue = <<>>
          /\ worker = "finished"
          /\ Last(enqueued) = Sentinel
          /\ Front(emitted) = Front(enqueued)

\* the thread has ended while the stream, which has forwarded some events,
\* still has three events or more and the sentinel to take from the queue
C18_Witness ==
    /\ consumer = "polling"
    /\ worker = "finished"
    /\ Len(progress_queue) >= 4
    /\ Len(emitted) >= 2

(***************************************************************************)
(* parse_ranking: the order of its rules, its failures, its purity.        *)
(***************************************************************************)
\* the first pattern that yields a label for a text, 7 when none does
FirstYielding(text) ==
    IF \E k \in 1..6 : RuleTable[text][k] # <<>>
    THEN CHOOSE k \in 1..6 : /\ RuleTable[text][k] # <<>>
                             /\ \A j \in 1..(k - 1) : RuleTable[text][j] = <<>>
    ELSE 7
Weather == Chars("The weather is nice today.")
\* the first pattern that yields a label, for each text
FirstYieldingRule == [t \in ParseTexts |-> FirstYielding(t)]

\* C21: parse_ranking tries its six rules in the fixed order 1..6 and returns
\* what the first rule that yields a label yields: the output is the result of
\* the smallest such rule, whatever the rules after it would yield.
C21_FirstYieldingRuleDecides ==
    /\ parser.pc = "try" /\ parser.text # None =>
          parser.rule <= FirstYieldingRule[parser.text]
    /\ \A i \in 1..Len(returns) :
          LET r == returns[i]
              k == FirstYieldingRule[r.text]
          IN  r.text # None /\ k <= 6 =>
                 /\ r.rule = k
                 /\ r.order = RuleTable[r.text][k]
                 /\ r.text \in DOMAIN ParsedOrder => r.order = ParsedOrder[r.text]

\* a call returned what an earlier rule yields although a later rule yields
\* another order
C21_Witness ==
    \E i \in 1..Len(returns) :
       /\ returns[i].text # None
       /\ returns[i].order # <<>>
       /\ \E k \in (returns[i].rule + 1)..6 :
             RuleTable[returns[i].text][k] \notin {<<>>, returns[i].order}

\* C22: parse_ranking never raises, whatever its input: a call for which no
\* rule matches (such as "The weather is nice today.") returns the empty
\* sequence, and every element of a result is one of A..E.
C22_NeverRaisesOnlyLabels ==
    /\ parser.pc \in {"idle", "try", "return"}
    /\ \A i \in 1..Len(returns) :
          LET r == returns[i]
          IN  /\ \A j \in 1..Len(r.order) : r.order[j] \in {"A", "B", "C", "D", "E"}
              /\ r.text = None => r.order = <<>>
              /\ r.text # None /\ FirstYieldingRule[r.text] = 7 => r.order = <<>>
              /\ r.text = Weather => r.order = <<>>

\* a call with something that is not a text, then a call with the weather
\* sentence, have both returned the empty sequence
C22_Witness ==
    /\ Len(returns) = 2
    /\ returns[1].text = None /\ returns[1].order = <<>>
    /\ returns[2].text = Weather /\ returns[2].order = <<>>

DeclaredSeq == [t \in DeclaredTexts |->
                  CHOOSE q \in LabelSeqs : \E d \in Delims, r \in Rests : t = Declared(q, d, r)]
NumberedSeq == [t \in NumberedTexts |->
                  CHOOSE q \in LabelSeqs :
                     \E m \in OrdinalMarks, j \in ItemJoins : t = Numbered(q, m, j)]

\* C24: for a text with an explicit final-ranking declaration followed by a
\* delimiter-separated label sequence, parse_ranking returns exactly the labels
\* of that sequence, in the declared order ("FINAL RANKING: A > C > B" gives
\* [A, C, B]).
C24_DeclaredSequenceReturned ==
    \A i \in 1..Len(returns) :
       returns[i].text \in DeclaredTexts =>
          returns[i].order = DeclaredSeq[returns[i].text]

HasExamKeyword(text) ==
    \E i \in 1..(Len(text) - 3) :
       /\ text[i] \in {"e", "E"}
       /\ text[i + 1] \in {"x", "X"}
       /\ text[i + 2] \in {"a", "A"}
       /\ text[i + 3] \in {"m", "M"}

\* C26: the route is a function of the query text alone: the router picks the
\* exam node exactly when the query holds "exam" in any case, and the consensus
\* node otherwise; its step calls no model and changes nothing but next_step
\* (and the place of the workflow).
C26_RouteByExamKeyword ==
    [][node = "router" =>
          /\ state'.next_step = (IF HasExamKeyword(state.query) THEN "exam" ELSE "consensus")
          /\ state' = [state EXCEPT !.next_step = state'.next_step]
          /\ node' = state'.next_step
          /\ visited' = Append(visited, "router")
          /\ UNCHANGED <<coordinator_vars, stream_vars, reviews, raised, reply>>]_vars

\* the router has sent "Set an Exam" to the exam node
C26_Witness ==
    /\ visited = <<"librarian", "router">>
    /\ state.query = Chars("Set an Exam")
    /\ state.next_step = "exam"
    /\ node = "exam"

(***************************************************************************)
(* The barriers between the stages.                                        *)
(***************************************************************************)
\* every call of the stage has completed and its future has been collected
StageComplete(stage) == \A n \in MemberNames : futures[stage][n].state = "collected"
\* no call of the stage is under way
StageQuiet(stage) == \A n \in MemberNames : futures[stage][n].state \in {"none", "collected"}
\* the step is a pool worker's: a running call ends
WorkerStep ==
    \E st \in Stages, n \in MemberNames :
       futures[st][n].state = "running" /\ futures'[st][n].state = "finished"

\* C27: the stage boundaries are full barriers. The Label Map is written, and
\* the Stage-2 reviewer calls are launched, only when every Stage-1 call has
\* completed; the Score Table is written only when every Stage-2 call has
\* completed; and no step of a pool worker writes the Label Map or the Score
\* Table.
C27_StagesAreBarriers ==
    [][/\ (label_map' # label_map \/ pc = "stage2") => StageComplete("collecting")
       /\ (\E n \in MemberNames : futures'["ranking"][n].state = "running") =>
             StageComplete("collecting")
       /\ (Len(calls') > Len(calls) /\ calls'[Len(calls')].stage # "collecting") =>
             StageComplete("collecting")
       /\ (scores' # scores \/ pc = "stage3" \/ pc = "scoring") =>
             StageComplete("collecting") /\ StageQuiet("ranking")
       /\ WorkerStep => UNCHANGED <<label_map, scores, responses, rankings, events>>]_vars

\* both stages ran their calls to the end, and the Label Map and the Score
\* Table have been written
C27_Witness ==
    /\ pc = "scoring"
    /\ StageComplete("collecting") /\ StageComplete("ranking")
    /\ Len(label_map) = 2
    /\ \E i \in 1..Len(scores) : scores[i].v > 0

(***************************************************************************)
(* The progress events of Stage 1 and Stage 2.                             *)
(***************************************************************************)
\* where in the log the agent has an event of the stage with one of the statuses
EventIdx(stage, agent, statuses) ==
    {i \in 1..Len(events) : /\ events[i].stage = stage
                            /\ events[i].agent = agent
                            /\ events[i].status \in statuses}

\* the event is a participant's started event (1) or done or error event (2)
EventKind(e) == IF e.status = "started" THEN 1 ELSE 2

\* what the log must hold before its i-th event, checked as the event is added
EventInPlace(i) ==
    LET e == events[i]
        before(x) == \E j \in 1..(i - 1) : events[j] = x
    IN  IF e.stage \notin Stages THEN TRUE
        ELSE IF e.agent \in MemberNames
        THEN /\ before(Event(e.stage, "system", "started"))
             /\ ~before(Event(e.stage, "system", "done"))
             /\ \A j \in 1..(i - 1) :
                   ~(/\ events[j].stage = e.stage
                     /\ events[j].agent = e.agent
                     /\ EventKind(events[j]) = EventKind(e))
        ELSE IF e.status = "done"
        THEN /\ ~before(e)
             /\ \A n \in MemberNames :
                   /\ before(Event(e.stage, n, "started"))
                   /\ before(Event(e.stage, n, "done")) \/ before(Event(e.stage, n, "error"))
        ELSE ~before(e)

\* C28: in Stage 1, and in Stage 2 when the Label Map is not empty, the stage's
\* own "system" started event comes before every event of a participant, its
\* "system" done event comes after every participant's done or error event, and
\* when the stage is over every participant has exactly one started event and
\* exactly one done or error event of that stage.
C28_StageEventsBracketParticipants ==
    [][/\ \A i \in (Len(events) + 1)..Len(events') : EventInPlace(i)'
       /\ pc' # pc =>
             /\ AfterStage1' => EventIdx("collecting", "system", {"done"})' # {}
             /\ AfterStage2' /\ label_map' # <<>> =>
                   EventIdx("ranking", "system", {"done"})' # {}]_vars

\* both stages are over, each with a participant whose call failed
C28_Witness ==
    /\ pc = "stage3"
    /\ label_map # <<>>
    /\ \E n \in MemberNames : EventIdx("collecting", n, {"error"}) # {}
    /\ \E n \in MemberNames : EventIdx("ranking", n, {"error"}) # {}
    /\ \E n \in MemberNames : EventIdx("ranking", n, {"done"}) # {}

(***************************************************************************)
(* The progress events of Stage 3, and the order of the Label Map.         *)
(***************************************************************************)
\* C29: when the chair call of Stage 3 has returned, every started event of
\* the stage, the winner's and the chair's, is followed by a done or error
\* event of the same actor: nobody is left started.
C29_Stage3StartedThenDone ==
    pc = "done" =>
       \A i \in 1..Len(events) :
          (events[i].stage = "synthesizing" /\ events[i].status = "started") =>
             \E j \in (i + 1)..Len(events) :
                /\ events[j].stage = "synthesizing"
                /\ events[j].agent = events[i].agent
                /\ events[j].status \in {"done", "error"}

\* the participants whose Stage-1 call returned, in the order in which the
\* loop over the completed futures found them
DoneOrder ==
    LET found == SelectSeq(events, LAMBDA e : /\ e.stage = "collecting"
                                              /\ e.agent \in MemberNames
                                              /\ e.status = "done")
    IN  [i \in 1..Len(found) |-> found[i].agent]

\* C30: the Label Map gives the first label to the first draft found complete
\* whose call did not fail, the second label to the next, and so on without a
\* gap; and once Stage 2 has built it, it stays as it is.
C30_LabelsInCompletionOrder ==
    AfterStage2Start =>
       label_map = [i \in 1..Len(DoneOrder) |-> [k |-> labels[i], v |-> DoneOrder[i]]]

(***************************************************************************)
(* Drafts whose marked expression cannot be computed.                      *)
(***************************************************************************)
\* the drafts with an unparseable or disallowed expression, each with the text
\* that has the inline error marker in the place of the expression
Marked ==
    [t \in CalcDrafts \ {Chars("q=CALCULATE(2*3)")} |->
        CASE t = Chars("q=CALCULATE(1/0) kPa") -> Chars("q=[CALC_ERROR: Division by zero] kPa")
          [] t = Chars("q=CALCULATE(2*) kPa") ->
                Chars("q=[CALC_ERROR: invalid syntax (<string>, line 1)] kPa")
          [] t = Chars("x=CALCULATE(import os)") ->
                Chars("x=[CALC_ERROR: Unsafe expression detected]")
          [] t = Chars("ci=CALCULATE(2*stdError)") ->
                Chars("ci=[CALC_ERROR: name 'stdError' is not defined]")]

\* C31: a Stage-1 response with a marked expression that cannot be parsed or
\* is not allowed is recorded with the inline error marker in the place of the
\* expression, as a successful draft (a done event, no error draft), and gets a
\* label in Stage 2; and the batch goes on: every participant has its draft.
C31_BadExpressionKeepsDraft ==
    /\ \A n \in MemberNames :
          LET f == futures["collecting"][n]
          IN  (f.state = "collected" /\ f.ok /\ f.val \in DOMAIN Marked) =>
                 /\ DictGet(responses, n, <<>>) = Marked[f.val]
                 /\ Event("collecting", n, "done") \in Range(events)
                 /\ Event("collecting", n, "error") \notin Range(events)
                 /\ AfterStage2Start => n \in LabelMapMembers
    /\ AfterStage1 => DictKeySet(responses) = MemberNames

(***************************************************************************)
(* The last rule of parse_ranking.                                         *)
(***************************************************************************)
\* the text holds the word, in any case
HoldsWord(text, word) ==
    \E i \in 1..(Len(text) - Len(word) + 1) :
       \A k \in 1..Len(word) : lower(text[i + k - 1]) = word[k]
RankingWords == {Chars("rank"), Chars("best"), Chars("order")}

\* where the label stands alone in the text: no letter, digit or underscore
\* on either side of it
StandsAlone(text, label) ==
    {i \in 1..Len(text) : /\ text[i] = label
                          /\ (i = 1 \/ text[i - 1] \notin WordCh)
                          /\ (i = Len(text) \/ text[i + 1] \notin WordCh)}
FirstAlone(text, label) ==
    CHOOSE i \in StandsAlone(text, label) : \A j \in StandsAlone(text, label) : i <= j

\* C32: when rules 1 to 5 yield nothing, rule 6 looks for labels only if the
\* text holds one of the words rank, best, order: its result has every label
\* that stands alone in the text, each once, in the order of their first
\* occurrence; without any of the three words the result is empty, even when
\* labels stand alone in the text.
C32_LastRuleListsStandaloneLabels ==
    \A i \in 1..Len(returns) :
       LET r == returns[i] IN
       (r.text # None /\ FirstYieldingRule[r.text] >= 6) =>
          IF \E w \in RankingWords : HoldsWord(r.text, w)
          THEN /\ {r.order[k] : k \in 1..Len(r.order)} =
                     {l \in {"A", "B", "C", "D", "E"} : StandsAlone(r.text, l) # {}}
               /\ \A j, k \in 1..Len(r.order) :
                     j < k => FirstAlone(r.text, r.order[j]) < FirstAlone(r.text, r.order[k])
          ELSE r.order = <<>>

\* "My order: C then A then C" was parsed to [C, A] by the last rule
C32_Witness ==
    \E i \in 1..Len(returns) :
       /\ returns[i].text = Chars("My order: C then A then C")
       /\ returns[i].rule = 6
       /\ returns[i].order = <<"C", "A">>

(***************************************************************************)
(* The callback and the stages.                                            *)
(***************************************************************************)
\* the calls a ConsensusManager without callback has made by now
CallsWithoutCallback ==
    (IF pc = "stage1" THEN <<>> ELSE Submitted("collecting", Stage1Prompt))
    \o (IF AfterStage2Start /\ label_map # <<>> THEN Stage2Submitted(responses) ELSE <<>>)
    \o (IF pc \in {"chair", "done", "failed"}
        THEN <<[stage |-> "synthesizing", to |-> "Chair", family |-> "deepseek",
                model |-> "deepseek-chat", prompt |-> ChairPrompt(winner, rankings)]>>
        ELSE <<>>)

\* the reviewers whose Stage-2 call returned and was collected
Reviewed ==
    {n \in MemberNames : /\ futures["ranking"][n].state = "collected"
                         /\ futures["ranking"][n].ok}

\* C33: whatever the registered callback raises, and on whichever events,
\* no exception of the callback leaves a stage, and the stages make the calls
\* and return the values that the call outcomes alone determine, the ones of
\* a coordinator with no callback: the calls of the three stages, Stage 1's
\* drafts, Stage 2's Label Map and Rankings, Stage 3's winner and answer.
C33_CallbackNeverChangesStages ==
    /\ pc # "raised"
    /\ calls = CallsWithoutCallback
    /\ \A n \in MemberNames :
          futures["collecting"][n].state = "collected" =>
             DictGet(responses, n, <<>>) = Stage1Draft(futures["collecting"][n])
    /\ AfterStage1 => DictKeySet(responses) = MemberNames
    /\ AfterStage2Start => label_map = BuildLabelMap(valid_members(responses))
    /\ Range(rankings) = {Ranking(n, futures["ranking"][n].val) : n \in Reviewed}
    /\ Len(rankings) = Cardinality(Reviewed)
    /\ pc \in {"chair", "done", "failed"} => winner = PickWinner(scores, label_map, responses)
    /\ pc = "done" => final_res.state = "returned" /\ final_res.val \in ChairTexts
    /\ on_progress = NoCallback => events = <<>>

\* the three stages ran to the chair's answer under a callback that raised on
\* every one of its events
C33_Witness ==
    /\ on_progress = [registered |-> TRUE, raises |-> Statuses]
    /\ pc = "done"
    /\ final_res.state = "returned"
    /\ Len(rankings) = Cardinality(MemberNames)
    /\ Len(events) > Len(calls)

(***************************************************************************)
(* Ties of the Score Table.                                                *)
(***************************************************************************)
\* the labels of the Score Table with the maximal score
Tied == {l \in DictKeySet(scores) : \A m \in DictKeySet(scores) : ScoreOf(m) <= ScoreOf(l)}

\* the place of a label in the Label Map
PlaceOf(label) == CHOOSE i \in 1..Len(label_map) : label_map[i].k = label

\* C34: whenever Stage 3 has chosen its winner over a non-empty Label Map,
\* the winner is, of the labels tied at the maximal score, the one that comes
\* first in the Label Map, and its participant is the winner's member; this
\* also when every score is zero, because no Ranking was received or every
\* parsed order is empty.
C34_TieGoesToFirstLabel ==
    (pc \in {"chair", "done", "failed"} /\ label_map # <<>>) =>
       /\ winner.label \in Tied
       /\ \A l \in Tied : PlaceOf(winner.label) <= PlaceOf(l)
       /\ winner.member = label_map[PlaceOf(winner.label)].v

\* three labels, no Ranking received, every score zero: the winner is A
C34_Witness ==
    /\ pc = "chair"
    /\ Len(label_map) = 3
    /\ rankings = <<>>
    /\ \A i \in 1..Len(scores) : scores[i].v = 0
    /\ winner.label = "A"

(***************************************************************************)
(* The points of one Ranking.                                              *)
(***************************************************************************)
\* C35: counting one Ranking raises the score of no label by more than the
\* 3 points of a first place, whatever the reviewer's verdict repeats.
C35_OneRankingAddsAtMostThree ==
    [][pc = "scoring" =>
          \A i \in 1..Len(scores) : scores'[i].v <= scores[i].v + 3]_vars

(***************************************************************************)
(* Verdicts in the format of the review prompt.                            *)
(***************************************************************************)
\* "FINAL RANKING: x > y > ..." and, on the next line, "CRITIQUE: ..."
PromptFormat(seq) == Declared(seq, Chars(" > "), Chars("\nCRITIQUE: ok"))
PromptFormatTexts == {PromptFormat(q) : q \in LabelSeqs}

\* C36: for a verdict in the output format of the review prompt, the declared
\* line followed by the CRITIQUE line, parse_ranking returns the labels of the
\* declared sequence in declared order and nothing more: no label comes from
\* the text after the sequence.
C36_PromptFormatVerdictReturned ==
    \A i \in 1..Len(returns) :
       \A q \in LabelSeqs :
          returns[i].text = PromptFormat(q) => returns[i].order = q

(***************************************************************************)
(* The order of the Rankings.                                              *)
(***************************************************************************)
\* the scoring loop in which each Ranking overwrites the scores
RECURSIVE ScoreLoopLastOnly(_, _, _)
ScoreLoopLastOnly(sc, rks, k) ==
    IF k > Len(rks) THEN sc
    ELSE ScoreLoopLastOnly(AddOrder([i \in 1..Len(sc) |-> [k |-> sc[i].k, v |-> 0]],
                                    rks[k].parsed_order, 1), rks, k + 1)

\* `for r in rankings`, from the k-th Ranking on
RECURSIVE ScoreLoop(_, _, _)
ScoreLoop(sc, rks, k) ==
    IF k > Len(rks) THEN sc
    ELSE ScoreLoop(AddOrder(sc, rks[k].parsed_order, 1), rks, k + 1)

\* the rankings list in another order
Permuted(rks, p) == [i \in 1..Len(rks) |-> rks[p[i]]]

\* C37: once Stage 3 has chosen the winner, the Score Table and the winner
\* are those of its scoring loop and its choice run on the Rankings list in
\* any order: every permutation of the list gives the same table and the
\* same winner.
C37_RankingsOrderIsIrrelevant ==
    pc = "chair" =>
       /\ scores = ScoreLoop(ZeroScores(label_map), rankings, 1)
       /\ \A p \in Permutations(1..Len(rankings)) :
             LET sc == ScoreLoop(ZeroScores(label_map), Permuted(rankings, p), 1)
             IN  /\ sc = scores
                 /\ PickWinner(sc, label_map, responses) = winner

\* three Rankings with three different parsed orders were counted
C37_Witness ==
    /\ pc = "chair"
    /\ Len(rankings) = 3
    /\ \A i, j \in 1..3 : i # j => rankings[i].parsed_order # rankings[j].parsed_order
    /\ \E i \in 1..Len(scores) : scores[i].v > 0
    /\ winner.label # ""

(***************************************************************************)
(* The states of the orchestrator in the two variants.                     *)
(***************************************************************************)
\* the nodes graph_app.invoke runs from node n on, when none raises
RECURSIVE Walk(_, _)
Walk(n, st) == IF n = "END" THEN <<>> ELSE <<n>> \o Walk(Edge(n, st), st)

\* the nodes of the synchronous variant for a query, the router left out
SyncVisits(query) ==
    SelectSeq(Walk("librarian", [NoState EXCEPT !.next_step =
                                    IF ContainsLower(query, Chars("exam"))
                                    THEN "exam" ELSE "consensus"]),
              LAMBDA n : n # "router")

\* whether the thread has put the started event of the stage
Entered(stage, agent) == ProgressEvent(stage, agent, "started") \in Range(enqueued)

\* the orchestrator states the thread of run_consensus has entered
StreamVisits ==
    (IF Entered("retrieving", "Librarian") THEN <<"librarian">> ELSE <<>>)
    \o (IF Entered("collecting", "system") THEN <<"consensus">> ELSE <<>>)
    \o (IF Entered("reviewing", "Critic") THEN <<"critic">> ELSE <<>>)

\* C38: a streamed request whose thread ends without raising has gone
\* through the orchestrator states of the synchronous variant for the same
\* question, whatever the router does there: retrieval and then the exam
\* draft alone for a question holding the exam keyword, retrieval, the
\* deliberation and the critique otherwise.
C38_StreamVisitsTheStatesOfAsk ==
    (worker = "finished" /\ ~WorkerRaised) =>
       StreamVisits = SyncVisits(question_text(request.question, None))

(***************************************************************************)
(* The end of the stream.                                                  *)
(***************************************************************************)
\* how often the sentinel was put
SentinelPuts == Len(SelectSeq(enqueued, LAMBDA item : item = Sentinel))

\* C39: when the calls of the thread return or raise, every started stream
\* ends, and it ends with a terminal event; the thread puts the sentinel once
\* and only once, as its last put, whether it raised or not, and the
\* generator takes it from the queue.
C39_StreamEndsAfterOneSentinel ==
    /\ [](/\ SentinelPuts <= 1
          /\ SentinelPuts = 1 <=> worker = "finished"
          /\ SentinelPuts = 1 => Last(enqueued) = Sentinel
          /\ StreamEnded => (/\ SentinelPuts = 1
                             /\ Sentinel \notin Range(progress_queue)
                             /\ Terminal(Last(emitted))))
    /\ (consumer = "polling") ~> StreamEnded

\* the thread raised, put the sentinel last, and the stream has ended
C39_Witness ==
    /\ WorkerRaised
    /\ worker = "finished"
    /\ Last(enqueued) = Sentinel
    /\ StreamEnded
    /\ Last(emitted).type = "error"

(***************************************************************************)
(* The result holder.                                                      *)
(***************************************************************************)
\* C40: every result event of the stream carries the answer and the critique
\* that the thread got from the chair and from the critic for this request
\* and wrote to the result holder before it put the sentinel: never the empty
\* placeholders the holder was created with, never one value without the
\* other.
C40_ResultCarriesWorkerValues ==
    \A i \in 1..Len(emitted) :
       emitted[i].type = "result" =>
          /\ worker = "finished"
          /\ emitted[i].answer \in ChairTexts
          /\ emitted[i].critique \in CritiqueTexts
          /\ emitted[i].answer = locals.final_answer
          /\ emitted[i].critique = locals.critique
====
